---------------------------- MODULE Spec2Model ----------------------------
(***************************************************************************)
(* Model of the clustering notebooks of ds2-2022:                          *)
(*   practice/exploratory_statistics/Clustering-Tuto-2.ipynb     (Tuto-2)  *)
(*   practice/exploratory_statistics/Clustering-Tuto-3-PCM.ipynb (PCM)     *)
(* The notebooks are sequences of calls into scikit-learn.  Each call is   *)
(* modelled by what the library routine it names does on the call's        *)
(* arguments (StandardScaler, PCA, GaussianMixture, DBSCAN).               *)
(*                                                                         *)
(* Numbers are binary floating-point numbers with a Prec-bit significand,  *)
(* rounded to nearest, ties to even (the arithmetic of numpy's float64,    *)
(* with a shorter significand).  A number is held as an integer count of   *)
(* the smallest quantum 2^-Frac, so that One stands for 1.0.               *)
(***************************************************************************)
EXTENDS Integers, Sequences, FiniteSets, TLC

(* ------------------------------ bounds -------------------------------- *)
\* significand width of the modelled floating-point format
Prec == 4
\* rows of the training matrix X
NRows == 3

(* ------------------------ floating-point numbers ---------------------- *)
\* binary logarithm of One: the quantum is 2^-Frac
Frac == 10
One == 2 ^ Frac

Abs(x) == IF x < 0 THEN -x ELSE x
Max2(a, b) == IF a >= b THEN a ELSE b

\* least exponent e >= from with an / (d * 2^e) < 2^Prec
RECURSIVE ExpOf(_, _, _)
ExpOf(an, d, from) ==
    IF an \div (d * (2 ^ from)) < 2 ^ Prec THEN from ELSE ExpOf(an, d, from + 1)

\* an / d >= 0 rounded to a Prec-bit significand, ties to even
RoundMag(an, d) ==
    LET e == ExpOf(an, d, 0)
        D == d * (2 ^ e)
        q == an \div D
        r == an % D
    IN  IF 2 * r > D \/ (2 * r = D /\ q % 2 = 1)
        THEN (q + 1) * (2 ^ e)
        ELSE q * (2 ^ e)

\* the floating-point number nearest to n / d   (d > 0)
Fl(n, d) == IF n >= 0 THEN RoundMag(n, d) ELSE -RoundMag(-n, d)

FAdd(a, b) == Fl(a + b, 1)
FSub(a, b) == Fl(a - b, 1)
FMul(a, b) == Fl(a * b, One)
FDiv(a, b) == IF b > 0 THEN Fl(a * One, b) ELSE Fl(-(a * One), -b)

\* least exponent e >= from with sqrt(V) / 2^e < 2^Prec
RECURSIVE SqrtExp(_, _)
SqrtExp(V, from) ==
    IF ((2 ^ Prec) * (2 ^ from)) * ((2 ^ Prec) * (2 ^ from)) > V
    THEN from ELSE SqrtExp(V, from + 1)

\* np.sqrt: the floating-point number nearest to the square root of a >= 0
FSqrt(a) ==
    LET V == a * One
        e == SqrtExp(V, 0)
        q == CHOOSE k \in 0..(2 ^ Prec - 1) :
                 /\ (k * (2 ^ e)) * (k * (2 ^ e)) <= V
                 /\ ((k + 1) * (2 ^ e)) * ((k + 1) * (2 ^ e)) > V
        h == (2 * q + 1) * (2 ^ e)
    IN  IF 4 * V > h * h \/ (4 * V = h * h /\ q % 2 = 1)
        THEN (q + 1) * (2 ^ e)
        ELSE q * (2 ^ e)

\* left-to-right floating-point sum of a sequence (np.sum on a short axis)
RECURSIVE FSum(_)
FSum(s) == IF s = <<>> THEN 0 ELSE FAdd(FSum(SubSeq(s, 1, Len(s) - 1)), s[Len(s)])


(* ------------------------------- state -------------------------------- *)
VARIABLES
    pc,          \* the step of the run that comes next
    err,         \* the exception that stopped the run, or "none"
    X,           \* training sample matrix: a sequence of rows
    scaler,      \* preprocessing.StandardScaler object
    Xarg,        \* the matrix last handed to scaler.transform
    Xn,          \* result of scaler.transform
    Xinv,        \* result of scaler.inverse_transform
    Xdb,         \* the matrix handed to DBSCAN(...).fit: a sequence of points
    eps,         \* DBSCAN radius
    min_samples, \* DBSCAN neighbour threshold
    db,          \* the fitted DBSCAN object
    core_samples_mask,
    labels,
    n_clusters_,
    maxvar,      \* compression level for the dimensionality reduction, in %
    spectrum,    \* variance of the standardized data along each principal axis
    reducer,     \* the PCA object
    K,           \* number of GMM classes to compute
    max_iter,    \* GaussianMixture(max_iter=...)
    tol,         \* GaussianMixture(tol=...)
    gmm,         \* the GaussianMixture object
    n_iter,      \* fit's loop counter
    lower_bound, \* fit's lower bound on the log-likelihood (see MinusInf)
    change,      \* lower_bound - prev_lower_bound of the last iteration
    warned,      \* a ConvergenceWarning has been issued
    wlik,        \* per sample and component: weight * likelihood under gmm
    LABELS,      \* gmm.predict(Xr)
    POST,        \* gmm.predict_proba(Xr)
    rng,         \* position of numpy's global random generator
    gmm_init,    \* the generator position fit seeded its first parameters from
    em,          \* per seed and iteration: the gain EM reaches on the data
    first,       \* results of the first of two runs, kept for comparison
    kmeans,      \* the KMeans object
    Xr,          \* reducer.transform(Xn)
    Xn_reconstructed, \* reducer.inverse_transform(Xr)
    X_reconstructed,  \* scaler.inverse_transform(Xn_reconstructed)
    par,         \* a call made part by part: the parts, their results
    dask,        \* the kernel of 03-Dask_Graph: its names, task graph and runs
    sel,         \* the profiles drawn for the training-set figure: Np, ip
    tuto         \* the kernel of Clustering-Tuto-2: ds, feat_0, feat_1, RES

scalerVars == <<X, scaler, Xarg, Xn, Xinv>>
dbVars == <<Xdb, eps, min_samples, db, core_samples_mask, labels, n_clusters_>>
pcaVars == <<maxvar, spectrum, reducer>>
gmmVars == <<K, max_iter, tol, gmm, n_iter, lower_bound, change, warned>>
predVars == <<wlik, LABELS, POST>>
detVars == <<rng, gmm_init, em, first, kmeans>>
useVars == <<Xr, Xn_reconstructed, X_reconstructed>>
nbVars == <<sel, tuto>>
extraVars == <<par, dask, nbVars>>
laterVars == <<detVars, useVars, extraVars>>
vars == <<pc, err, scalerVars, dbVars, pcaVars, gmmVars, predVars, laterVars>>

(* ------------------- Standardizer: StandardScaler --------------------- *)
\* number of features of the 2D dataset: xr.concat([feat_0, feat_1])
NFeatures == 2

Col(Xm, j) == [i \in 1..Len(Xm) |-> Xm[i][j]]

\* preprocessing.StandardScaler(): nothing is fitted at construction
NewScaler == [fitted |-> FALSE, mean_ |-> <<>>, var_ |-> <<>>, scale_ |-> <<>>]

ColMean(c) == Fl(FSum(c), Len(c))
ColVar(c) ==
    LET m == ColMean(c)
        sq == [i \in 1..Len(c) |-> FMul(FSub(c[i], m), FSub(c[i], m))]
    IN  Fl(FSum(sq), Len(c))
\* the bare square root of the variance
ColScaleRaw(c) == FSqrt(ColVar(c))
\* scale_ = sqrt(var_), with a zero scale replaced by 1.0
ColScale(c) == IF ColVar(c) = 0 THEN One ELSE FSqrt(ColVar(c))

\* scaler.fit(X): column-wise mean_, var_ and scale_
ScalerFit(Xm) ==
    [fitted |-> TRUE,
     mean_  |-> [j \in 1..Len(Xm[1]) |-> ColMean(Col(Xm, j))],
     var_   |-> [j \in 1..Len(Xm[1]) |-> ColVar(Col(Xm, j))],
     scale_ |-> [j \in 1..Len(Xm[1]) |-> ColScale(Col(Xm, j))]]

\* one entry of scaler.transform: X -= mean_ ; X /= scale_
TransformEntry(x, mean, scale) == FDiv(FSub(x, mean), scale)
\* inverse_transform that forgets to add the mean back
InverseEntryNoMean(y, mean, scale) == FMul(y, scale)
\* one entry of scaler.inverse_transform: X *= scale_ ; X += mean_
InverseEntry(y, mean, scale) == FAdd(FMul(y, scale), mean)

ScalerTransform(sc, Ym) ==
    [i \in 1..Len(Ym) |->
        [j \in 1..Len(Ym[i]) |-> TransformEntry(Ym[i][j], sc.mean_[j], sc.scale_[j])]]
ScalerInverseTransform(sc, Ym) ==
    [i \in 1..Len(Ym) |->
        [j \in 1..Len(Ym[i]) |-> InverseEntry(Ym[i][j], sc.mean_[j], sc.scale_[j])]]

\* sample values of the training matrices and of the matrices transformed
TrainVals == {0, One, 3 * One}
ProbeVals == {-(2 * One), 0, One \div 2, One, 3 * One}
Rows(vals) == [1..NFeatures -> vals]
TrainMatrices == [1..NRows -> Rows(TrainVals)]
ProbeMatrices == [1..1 -> Rows(ProbeVals)]

ScalerIdle ==
    /\ X = <<>> /\ scaler = NewScaler /\ Xarg = <<>> /\ Xn = <<>> /\ Xinv = <<>>

\* DBSCAN(eps, min_samples): nothing is fitted at construction
NewDBSCAN == [fitted |-> FALSE, labels_ |-> <<>>, core_sample_indices_ |-> <<>>]

DbIdle ==
    /\ Xdb = <<>> /\ eps = 0 /\ min_samples = 0 /\ db = NewDBSCAN
    /\ core_samples_mask = <<>> /\ labels = <<>> /\ n_clusters_ = 0

\* PCA(n_components, svd_solver='full'): nothing is fitted at construction
NewPCA == [fitted |-> FALSE, n_components_ |-> 0, components_ |-> <<>>,
           explained_variance_ |-> <<>>, explained_variance_ratio_ |-> <<>>]

PcaIdle == maxvar = 0 /\ spectrum = <<>> /\ reducer = NewPCA

\* an attribute or a number is either absent, <<>>, or present, <<v>>
Absent == <<>>
Some(v) == <<v>>
\* -inf, below every lower bound, and +inf, above every change: no number
MinusInf == Absent
PlusInf == Absent

\* GaussianMixture(n_components=K, ...): nothing is fitted at construction.
\* params names the parameters (weights_, means_, covariances_) the object
\* holds: absent, Some(0) for the k-means seed, or Some(n) for those the
\* n-th M-step wrote.
NewGMM == [params |-> Absent, converged_ |-> Absent, n_iter_ |-> Absent,
           lower_bound_ |-> Absent]

GmmLoopIdle == n_iter = 0 /\ lower_bound = MinusInf /\ change = PlusInf /\ warned = FALSE
GmmIdle == K = 0 /\ max_iter = 0 /\ tol = 0 /\ gmm = NewGMM /\ GmmLoopIdle
PredIdle == wlik = <<>> /\ LABELS = <<>> /\ POST = <<>>

\* largest iteration cap tried
MaxIterBound == 3

\* tolerances, and the gains of the lower bound one EM iteration can bring
\* (an EM iteration never lowers the bound it maximises)
TolValues == {0, 2}
Gains == {0, 1, 5}
MaxIterValues == 1..MaxIterBound
FitK == {-1, 0, 1, 2}

\* largest number of draws from numpy's global generator followed
RngBound == 2
Seeds == 0..(RngBound - 1)
\* the gains EM reaches at each iteration, one schedule per seed; EmSame are
\* the data on which the seed makes no difference
Schedules == [1..MaxIterBound -> Gains]
EmSame == {[s \in Seeds |-> f] : f \in Schedules}
\* KMeans(n_clusters=k, random_state=0): nothing is fitted at construction
NewKMeans(k) ==
    [n_clusters |-> k, fitted |-> FALSE, cluster_centers_ |-> <<>>, labels_ |-> <<>>]
\* no call has been split in parts
ParIdle ==
    [op |-> "", input |-> <<>>, part |-> <<>>, state |-> <<>>, out |-> <<>>,
     result |-> <<>>]
\* the kernel of 03-Dask_Graph before its first cell
DaskIdle == [cell |-> "off"]
\* no profile drawn yet, and the kernel of Clustering-Tuto-2 not started
SelIdle == [Np |-> 0, draws |-> <<>>, ip |-> <<>>]
TutoIdle == [cell |-> "off"]
NbIdle == sel = SelIdle /\ tuto = TutoIdle
ExtraIdle == par = ParIdle /\ dask = DaskIdle /\ NbIdle
DetIdle ==
    /\ rng = 0 /\ gmm_init = 0 /\ first = Absent /\ kmeans = NewKMeans(0)
    /\ ExtraIdle
UseIdle == Xr = <<>> /\ Xn_reconstructed = <<>> /\ X_reconstructed = <<>>
\* the data on which EM gains nothing at any iteration
EmFlat == [s \in Seeds |-> [n \in 1..MaxIterBound |-> 0]]
LaterIdle == DetIdle /\ UseIdle /\ em = EmFlat

InitScaler ==
    /\ LaterIdle
    /\ pc = "scaler_fit"
    /\ err = "none"
    /\ X \in TrainMatrices
    /\ scaler = NewScaler
    /\ Xarg = <<>> /\ Xn = <<>> /\ Xinv = <<>>
    /\ DbIdle
    /\ PcaIdle
    /\ GmmIdle
    /\ PredIdle

\* scaler = scaler.fit(X)
ScFit ==
    /\ pc = "scaler_fit"
    /\ scaler' = ScalerFit(X)
    /\ pc' = "scaler_transform"
    /\ UNCHANGED <<laterVars, err, X, Xarg, Xn, Xinv, dbVars, pcaVars, gmmVars, predVars>>

\* Xn = scaler.transform(Y), for a matrix Y with the fitted column count
ScTransform ==
    /\ pc = "scaler_transform"
    /\ \E Y \in ProbeMatrices \cup {X} :
          /\ Xarg' = Y
          /\ Xn' = ScalerTransform(scaler, Y)
    /\ pc' = "scaler_inverse"
    /\ UNCHANGED <<laterVars, err, X, scaler, Xinv, dbVars, pcaVars, gmmVars, predVars>>

\* scaler.inverse_transform(Xn)
ScInverse ==
    /\ pc = "scaler_inverse"
    /\ Xinv' = ScalerInverseTransform(scaler, Xn)
    /\ pc' = "scaler_done"
    /\ UNCHANGED <<laterVars, err, X, scaler, Xarg, Xn, dbVars, pcaVars, gmmVars, predVars>>

NextScaler == ScFit \/ ScTransform \/ ScInverse
SpecScaler == InitScaler /\ [][NextScaler]_vars

(* ----------------- Density-based clusterer: DBSCAN -------------------- *)
\* number of points handed to DBSCAN
NPoints == 4

Noise == -1

Dist2(p, q) == (p[1] - q[1]) * (p[1] - q[1]) + (p[2] - q[2]) * (p[2] - q[2])
\* q lies in the eps-ball of p (Euclidean distance <= eps)
WithinEps(P, r, i, j) == Dist2(P[i], P[j]) <= r * r

Indices(P) == [k \in 1..Len(P) |-> k]

\* radius_neighbors: the samples within eps of sample i, itself included
Neighborhood(P, r, i) == SelectSeq(Indices(P), LAMBDA j : WithinEps(P, r, i, j))

\* a core test that leaves the sample itself out of the count
IsCoreExcludingSelf(P, r, ms, i) == Len(Neighborhood(P, r, i)) > ms
\* core_samples = n_neighbors >= min_samples
IsCore(P, r, ms, i) == Len(Neighborhood(P, r, i)) >= ms

\* an expansion that never follows the neighbours of a core sample
PushNone(stack, neighb, lab) == stack
\* dbscan_inner: push the still unlabelled neighbours of a core sample
PushUnlabelled(stack, neighb, lab) ==
    stack \o SelectSeq(neighb, LAMBDA v : lab[v] = Noise)

\* dbscan_inner, the depth-first expansion of one cluster from sample i
RECURSIVE Expand(_, _, _, _, _, _, _)
Expand(P, r, ms, lab, stack, i, label_num) ==
    LET lab1 == IF lab[i] = Noise THEN [lab EXCEPT ![i] = label_num] ELSE lab
        stack1 == IF lab[i] = Noise /\ IsCore(P, r, ms, i)
                  THEN PushUnlabelled(stack, Neighborhood(P, r, i), lab1)
                  ELSE stack
    IN  IF stack1 = <<>>
        THEN lab1
        ELSE Expand(P, r, ms, lab1, SubSeq(stack1, 1, Len(stack1) - 1),
                    stack1[Len(stack1)], label_num)

\* dbscan_inner, the loop over the samples in order
RECURSIVE DbscanInner(_, _, _, _, _, _)
DbscanInner(P, r, ms, lab, i, label_num) ==
    IF i > Len(P) THEN lab
    ELSE IF lab[i] # Noise \/ ~IsCore(P, r, ms, i)
         THEN DbscanInner(P, r, ms, lab, i + 1, label_num)
         ELSE DbscanInner(P, r, ms, Expand(P, r, ms, lab, <<>>, i, label_num),
                          i + 1, label_num + 1)

\* DBSCAN(eps, min_samples).fit(P)
DbscanFit(P, r, ms) ==
    [fitted |-> TRUE,
     labels_ |-> DbscanInner(P, r, ms, [k \in 1..Len(P) |-> Noise], 1, 0),
     core_sample_indices_ |->
         SelectSeq(Indices(P), LAMBDA k : IsCore(P, r, ms, k))]

SeqRange(q) == {q[k] : k \in 1..Len(q)}

\* core_samples_mask = zeros_like(labels_) ; mask[core_sample_indices_] = True
CoreMask(d) == [k \in 1..Len(d.labels_) |-> k \in SeqRange(d.core_sample_indices_)]

\* len(set(labels)), the noise label counted with the others
CountLabels(lab) == Cardinality(SeqRange(lab))
\* len(set(labels)) - (1 if -1 in labels else 0)
CountClusters(lab) ==
    Cardinality(SeqRange(lab)) - (IF Noise \in SeqRange(lab) THEN 1 ELSE 0)

\* the sample positions, radii and thresholds tried
GridPoints == {0, 1, 2} \X {0, 1}
EpsValues == {1, 2}
MinSamplesValues == {1, 2, 3}

InitDB ==
    /\ LaterIdle
    /\ pc = "dbscan"
    /\ err = "none"
    /\ ScalerIdle
    /\ PcaIdle
    /\ GmmIdle
    /\ PredIdle
    /\ Xdb \in [1..NPoints -> GridPoints]
    /\ eps \in EpsValues
    /\ min_samples \in MinSamplesValues
    /\ db = NewDBSCAN
    /\ core_samples_mask = <<>> /\ labels = <<>> /\ n_clusters_ = 0

\* the DBSCAN cell: fit, core_samples_mask, labels, n_clusters_
DbCell ==
    /\ pc = "dbscan"
    /\ db' = DbscanFit(Xdb, eps, min_samples)
    /\ core_samples_mask' = CoreMask(db')
    /\ labels' = db'.labels_
    /\ n_clusters_' = CountClusters(labels')
    /\ pc' = "dbscan_done"
    /\ UNCHANGED <<laterVars, err, scalerVars, pcaVars, gmmVars, predVars, Xdb, eps, min_samples>>

NextDB == DbCell
SpecDB == InitDB /\ [][NextDB]_vars

(* ------------------- Dimensionality reducer: PCA ---------------------- *)
\* number of principal axes (features) of the data handed to PCA
NAxes == 3

\* the axes of sp[1..n], by descending variance (the order of the singular
\* values of the SVD), equal variances in axis order
RECURSIVE RankDesc(_, _)
RankDesc(sp, n) ==
    IF n = 0 THEN <<>>
    ELSE LET r == RankDesc(sp, n - 1)
             k == Cardinality({i \in 1..Len(r) : sp[r[i]] >= sp[n]})
         IN  SubSeq(r, 1, k) \o <<n>> \o SubSeq(r, k + 1, Len(r))

\* np.cumsum: the running floating-point sums of a sequence
CumSum(q) == [c \in 1..Len(q) |-> FSum(SubSeq(q, 1, c))]

\* a count that stops at the first prefix reaching the threshold
SearchSortedLeft(a, v) == Cardinality({k \in 1..Len(a) : a[k] < v})
\* np.searchsorted(a, v, side='right') on the sorted array a
SearchSortedRight(a, v) == Cardinality({k \in 1..Len(a) : a[k] <= v})

Prefix(q, n) == SubSeq(q, 1, IF n < Len(q) THEN n ELSE Len(q))

\* n_components = maxvar / 100
NComponentsArg(mv) == Fl(mv * One, 100)

\* PCA._fit_full accepts a float n_components only strictly between 0 and 1
PcaArgValid(nc) == 0 < nc /\ nc < One

\* PCA(n_components = nc, svd_solver = 'full').fit on data with spectrum sp
\* explained_variance_ of all axes, in the order of the singular values
ExplainedVariance(sp) == [k \in 1..Len(sp) |-> sp[RankDesc(sp, Len(sp))[k]]]
\* the variances themselves, the division by their total forgotten
VarianceUnnormalised(sp) == ExplainedVariance(sp)
\* explained_variance_ratio_ = explained_variance_ / total_var, all axes
ExplainedVarianceRatio(sp) ==
    [k \in 1..Len(sp) |-> FDiv(ExplainedVariance(sp)[k], FSum(ExplainedVariance(sp)))]

\* the number of components kept for the float n_components nc
NumComponents(sp, nc) == SearchSortedRight(CumSum(ExplainedVarianceRatio(sp)), nc) + 1

PcaFit(sp, nc) ==
    [fitted |-> TRUE,
     n_components_ |-> NumComponents(sp, nc),
     components_ |-> Prefix(RankDesc(sp, Len(sp)), NumComponents(sp, nc)),
     explained_variance_ |-> Prefix(ExplainedVariance(sp), NumComponents(sp, nc)),
     explained_variance_ratio_ |->
         Prefix(ExplainedVarianceRatio(sp), NumComponents(sp, nc))]

\* reducer.mean_: the column means of the matrix fitted on
PcaMean(Ym) == [j \in 1..Len(Ym[1]) |-> ColMean(Col(Ym, j))]
\* reducer.fit(Ym) on a matrix whose principal axes are its columns, with
\* the variances sp along them
PcaFitOn(Ym, sp, nc) == PcaFit(sp, nc) @@ [mean_ |-> PcaMean(Ym)]
\* the centred matrix, not projected on the components
CentredOnly(red, Ym) ==
    [i \in 1..Len(Ym) |-> [j \in 1..Len(Ym[i]) |-> FSub(Ym[i][j], red.mean_[j])]]
\* reducer.transform(Ym): np.dot(Ym - reducer.mean_, np.transpose(reducer.components_))
ReducerTransform(red, Ym) ==
    [i \in 1..Len(Ym) |->
        [k \in 1..Len(red.components_) |->
            FSub(Ym[i][red.components_[k]], red.mean_[red.components_[k]])]]
\* the part of column j carried by the components kept
Carried(red, row, j) ==
    IF \E k \in 1..Len(red.components_) : red.components_[k] = j
    THEN row[CHOOSE k \in 1..Len(red.components_) : red.components_[k] = j]
    ELSE 0
\* reducer.inverse_transform(Yr): np.dot(Yr, reducer.components_) + reducer.mean_
ReducerInverseTransform(red, Yr) ==
    [i \in 1..Len(Yr) |->
        [j \in 1..Len(red.mean_) |-> FAdd(Carried(red, Yr[i], j), red.mean_[j])]]

\* variances and compression levels tried
SpectrumVals == {0, One, 3 * One, 4 * One, 8 * One}
MaxVarValues == {-10, 0, 50, 75, 90, 100, 120}
Spectra == {sp \in [1..NAxes -> SpectrumVals] : \E k \in 1..NAxes : sp[k] > 0}

InitPCA ==
    /\ LaterIdle
    /\ pc = "pca_fit"
    /\ err = "none"
    /\ ScalerIdle
    /\ DbIdle
    /\ GmmIdle
    /\ PredIdle
    /\ maxvar \in MaxVarValues
    /\ spectrum \in Spectra
    /\ reducer = NewPCA

\* reducer = PCA(n_components=maxvar/100, svd_solver='full'); reducer.fit(Xn)
PcaFitOk ==
    /\ pc = "pca_fit"
    /\ PcaArgValid(NComponentsArg(maxvar))
    /\ reducer' = PcaFit(spectrum, NComponentsArg(maxvar))
    /\ pc' = "pca_done"
    /\ UNCHANGED <<laterVars, err, scalerVars, dbVars, gmmVars, predVars, maxvar, spectrum>>

\* reducer.fit(Xn) raises ValueError on an n_components it does not accept
PcaFitRaises ==
    /\ pc = "pca_fit"
    /\ ~PcaArgValid(NComponentsArg(maxvar))
    /\ err' = "ValueError"
    /\ pc' = "stopped"
    /\ UNCHANGED <<laterVars, scalerVars, dbVars, pcaVars, gmmVars, predVars>>

NextPCA == PcaFitOk \/ PcaFitRaises
SpecPCA == InitPCA /\ [][NextPCA]_vars

(* --------------- Density model: GaussianMixture.fit ------------------- *)

\* a check that lets every n_components through
GmmArgAny(k) == TRUE
\* fit's check of the hyper-parameters: n_components is a positive integer
GmmArgValid(k) == k >= 1

\* a loop guard that lets one more iteration through
LoopGuardInclusive(n, cap) == n <= cap
\* for n_iter in range(1, max_iter + 1): n counts the iterations done
LoopGuard(n, cap) == n < cap

\* abs(change) < self.tol
BelowTol(ch, t) == ch # PlusInf /\ Abs(ch[1]) < t

\* a warning issued whatever the loop found
WarnAlways(converged) == TRUE
\* if not self.converged_: warnings.warn(..., ConvergenceWarning)
ShouldWarn(converged) == ~converged

\* a fit that goes on from the lower bound the last fit ended with
StaleLowerBound(last) == last
\* lower_bound = -np.inf at the start of a fit (warm_start is not set)
InitialLowerBound(last) == MinusInf
\* change = lower_bound - prev_lower_bound, prev_lower_bound = -inf at first
Change(lb, prev) == IF prev = MinusInf THEN PlusInf ELSE Some(lb[1] - prev[1])
\* the lower bound the E-step reports after a gain g
NextLowerBound(prev, g) == IF prev = MinusInf THEN Some(0) ELSE Some(prev[1] + g)

InitGMM ==
    /\ DetIdle /\ UseIdle
    /\ em \in EmSame
    /\ pc = "gmm_fit"
    /\ err = "none"
    /\ ScalerIdle /\ DbIdle /\ PcaIdle /\ PredIdle
    /\ K \in FitK
    /\ max_iter \in MaxIterValues
    /\ tol \in TolValues
    /\ gmm = NewGMM
    /\ GmmLoopIdle

\* gmm.fit(Xr), entry: the hyper-parameters pass the check, converged_ is
\* cleared, the parameters are seeded from the global generator
\* (random_state is not given) and the loop is set up
GmmFitStart ==
    /\ pc = "gmm_fit"
    /\ GmmArgValid(K)
    /\ rng < RngBound
    /\ gmm' = [gmm EXCEPT !.params = Some(0), !.converged_ = Some(FALSE)]
    /\ gmm_init' = rng
    /\ rng' = rng + 1
    /\ n_iter' = 0
    /\ lower_bound' = InitialLowerBound(lower_bound)
    /\ change' = PlusInf
    /\ pc' = IF LoopGuard(0, max_iter) THEN "gmm_iter" ELSE "gmm_end"
    /\ UNCHANGED <<em, first, kmeans, useVars, extraVars, err, scalerVars, dbVars, pcaVars,
                   predVars, K, max_iter, tol, warned>>

\* gmm.fit(Xr), entry: the check of the hyper-parameters raises
GmmFitRaises ==
    /\ pc = "gmm_fit"
    /\ ~GmmArgValid(K)
    /\ err' = "ValueError"
    /\ pc' = "stopped"
    /\ UNCHANGED <<laterVars, scalerVars, dbVars, pcaVars, gmmVars, predVars>>

\* one pass of the loop: E-step, M-step (which writes the parameters into the
\* object), the new lower bound, the change and the convergence test; the
\* gain is the one the data give at this iteration from this seed
GmmIterate ==
    /\ pc = "gmm_iter"
    /\ \E g \in {em[gmm_init][n_iter + 1]} :
        LET lb == NextLowerBound(lower_bound, g)
            ch == Change(lb, lower_bound)
            n == n_iter + 1
            conv == BelowTol(ch, tol)
        IN  /\ n_iter' = n
            /\ lower_bound' = lb
            /\ change' = ch
            /\ gmm' = [gmm EXCEPT !.params = Some(n), !.converged_ = Some(conv)]
            /\ pc' = IF ~conv /\ LoopGuard(n, max_iter) THEN "gmm_iter" ELSE "gmm_end"
    /\ UNCHANGED <<laterVars, err, scalerVars, dbVars, pcaVars, predVars, K, max_iter, tol, warned>>

\* one pass of the loop in which the M-step meets a covariance matrix it
\* cannot factor: the parameters of that pass are lost and fit raises
GmmIterateRaises ==
    /\ pc = "gmm_iter"
    /\ n_iter' = n_iter + 1
    /\ err' = "ValueError"
    /\ pc' = "stopped"
    /\ UNCHANGED <<laterVars, scalerVars, dbVars, pcaVars, predVars, K, max_iter, tol, gmm,
                   lower_bound, change, warned>>

\* after the loop: the warning if the loop did not converge, then n_iter_ and
\* lower_bound_ are recorded and fit returns the object
GmmFitEnd ==
    /\ pc = "gmm_end"
    /\ warned' = ShouldWarn(gmm.converged_[1])
    /\ gmm' = [gmm EXCEPT !.n_iter_ = Some(n_iter), !.lower_bound_ = lower_bound]
    /\ pc' = "gmm_done"
    /\ UNCHANGED <<laterVars, err, scalerVars, dbVars, pcaVars, predVars, K, max_iter, tol,
                   n_iter, lower_bound, change>>

NextGMM == GmmFitStart \/ GmmFitRaises \/ GmmIterate \/ GmmIterateRaises \/ GmmFitEnd
SpecGMM == InitGMM /\ [][NextGMM]_vars
\* fit runs to its end once called: no step of it waits on anything
FairSpecGMM == SpecGMM /\ WF_vars(NextGMM)

(* ------------- Density model: GaussianMixture.predict* ---------------- *)
\* number of samples classified
NClassified == 1

\* an arg-max that keeps the last of several equal maxima
ArgMaxLast(w) ==
    CHOOSE k \in 1..Len(w) :
        /\ \A j \in 1..Len(w) : w[j] <= w[k]
        /\ \A j \in (k + 1)..Len(w) : w[j] < w[k]
\* np.argmax: the first index holding the maximum
ArgMax(w) ==
    CHOOSE k \in 1..Len(w) :
        /\ \A j \in 1..Len(w) : w[j] <= w[k]
        /\ \A j \in 1..(k - 1) : w[j] < w[k]

RECURSIVE Sum(_)
Sum(q) == IF q = <<>> THEN 0 ELSE Sum(SubSeq(q, 1, Len(q) - 1)) + q[Len(q)]

\* responsibilities left unnormalised
Unnormalised(w) == [k \in 1..Len(w) |-> Fl(w[k] * One, w[ArgMax(w)])]
\* exp(weighted_log_prob - logsumexp(weighted_log_prob)): each weighted
\* likelihood over their sum, rounded
Responsibilities(w) == [k \in 1..Len(w) |-> Fl(w[k] * One, Sum(w))]

\* gmm.predict: weighted_log_prob.argmax(axis=1); the logarithm is increasing,
\* labels count from 0
Predict(W) == [i \in 1..Len(W) |-> ArgMax(W[i]) - 1]
\* gmm.predict_proba
PredictProba(W) == [i \in 1..Len(W) |-> Responsibilities(W[i])]

\* weighted likelihoods and numbers of components tried
LikVals == {1, 2, 16, 17}
PredictK == {2, 3}
LikMatrices(k) == [1..NClassified -> [1..k -> LikVals]]

\* the object a fit of one iteration returns
FittedGMM == [params |-> Some(1), converged_ |-> Some(FALSE), n_iter_ |-> Some(1),
              lower_bound_ |-> Some(0)]

InitPredict ==
    /\ LaterIdle
    /\ pc = "gmm_done"
    /\ err = "none"
    /\ ScalerIdle /\ DbIdle /\ PcaIdle
    /\ K \in PredictK
    /\ max_iter = 1 /\ tol \in TolValues
    /\ n_iter = 1 /\ lower_bound = Some(0) /\ change = PlusInf /\ warned = TRUE
    /\ gmm = FittedGMM
    /\ wlik \in LikMatrices(K)
    /\ LABELS = <<>> /\ POST = <<>>

\* labels assigned at the place of the fit
GmmPredictUnfitted ==
    /\ pc = "gmm_fit"
    /\ LABELS' = Predict(wlik)
    /\ pc' = "predict_proba"
    /\ UNCHANGED <<laterVars, err, scalerVars, dbVars, pcaVars, gmmVars, wlik, POST>>
\* LABELS = gmm.predict(Xr)
GmmPredict ==
    /\ pc = "gmm_done"
    /\ LABELS' = Predict(wlik)
    /\ pc' = "predict_proba"
    /\ UNCHANGED <<laterVars, err, scalerVars, dbVars, pcaVars, gmmVars, wlik, POST>>

\* POST = gmm.predict_proba(Xr)
GmmPredictProba ==
    /\ pc = "predict_proba"
    /\ POST' = PredictProba(wlik)
    /\ pc' = "classified"
    /\ UNCHANGED <<laterVars, err, scalerVars, dbVars, pcaVars, gmmVars, wlik, LABELS>>

NextPredict == GmmPredict \/ GmmPredictProba
SpecPredict == InitPredict /\ [][NextPredict]_vars

(* ------------- The cells of Clustering-Tuto-3-PCM in order ------------ *)
\* data sets, spectra and likelihoods the whole run is tried on
PipeMatrices ==
    { [i \in 1..NRows |-> <<0, One>>],
      [i \in 1..NRows |-> IF i = 1 THEN <<3 * One, 0>> ELSE <<0, One>>] }
PipeSpectra ==
    { [a \in 1..NFeatures |-> One],
      [a \in 1..NFeatures |-> IF a = 1 THEN 8 * One ELSE One] }
PipeLikVals == {1, 2}
\* the gain schedules of the run: flat at each gain, or falling
PipeEm ==
    {[s \in Seeds |-> [n \in 1..MaxIterBound |-> g]] : g \in Gains}
        \cup {[s \in Seeds |-> [n \in 1..MaxIterBound |-> IF n = 1 THEN 5 ELSE 0]]}
PipeLikRows(k) == {[j \in 1..k |-> 1], [j \in 1..k |-> IF j = k THEN 2 ELSE 1]}
PipeLik(k) ==
    IF k >= 1
    THEN {[i \in 1..NRows |-> IF i = 1 THEN a ELSE b] : a, b \in PipeLikRows(k)}
    ELSE {<<>>}

\* the parameter cell has run: K and maxvar are set, the data are loaded
Init ==
    /\ DetIdle /\ UseIdle
    /\ em \in PipeEm
    /\ pc = "scaler_cell"
    /\ err = "none"
    /\ X \in PipeMatrices
    /\ scaler = NewScaler /\ Xarg = <<>> /\ Xn = <<>> /\ Xinv = <<>>
    /\ DbIdle
    /\ maxvar \in MaxVarValues
    /\ spectrum \in PipeSpectra
    /\ reducer = NewPCA
    /\ K \in FitK
    /\ max_iter \in MaxIterValues
    /\ tol \in TolValues
    /\ gmm = NewGMM
    /\ GmmLoopIdle
    /\ wlik \in PipeLik(K)
    /\ LABELS = <<>> /\ POST = <<>>

\* scaler = StandardScaler(); scaler.fit(X); Xn = scaler.transform(X)
CellScaler ==
    /\ pc = "scaler_cell"
    /\ scaler' = ScalerFit(X)
    /\ Xarg' = X
    /\ Xn' = ScalerTransform(ScalerFit(X), X)
    /\ pc' = "pca_cell"
    /\ UNCHANGED <<laterVars, err, X, Xinv, dbVars, pcaVars, gmmVars, predVars>>

\* reducer = PCA(n_components=maxvar/100, svd_solver='full'); reducer.fit(Xn);
\* Xr = reducer.transform(Xn); Xn_reconstructed = reducer.inverse_transform(Xr);
\* X_reconstructed = scaler.inverse_transform(Xn_reconstructed)
CellPca ==
    /\ pc = "pca_cell"
    /\ PcaArgValid(NComponentsArg(maxvar))
    /\ reducer' = PcaFitOn(Xn, spectrum, NComponentsArg(maxvar))
    /\ Xr' = ReducerTransform(reducer', Xn)
    /\ Xn_reconstructed' = ReducerInverseTransform(reducer', Xr')
    /\ X_reconstructed' = ScalerInverseTransform(scaler, Xn_reconstructed')
    /\ pc' = "gmm_fit"
    /\ UNCHANGED <<detVars, extraVars, err, scalerVars, dbVars, gmmVars, predVars, maxvar, spectrum>>

\* reducer.fit(Xn) raises on its n_components: the cell stops there
CellPcaRaises ==
    /\ pc = "pca_cell"
    /\ ~PcaArgValid(NComponentsArg(maxvar))
    /\ err' = "ValueError"
    /\ pc' = "stopped"
    /\ UNCHANGED <<laterVars, scalerVars, dbVars, pcaVars, gmmVars, predVars>>

Next ==
    \/ CellScaler
    \/ CellPca
    \/ CellPcaRaises
    \/ GmmFitStart
    \/ GmmFitRaises
    \/ GmmIterate
    \/ GmmIterateRaises
    \/ GmmFitEnd
    \/ GmmPredict
    \/ GmmPredictProba
Spec == Init /\ [][Next]_vars

(* ------------------------------ KMeans -------------------------------- *)
\* largest number of Lloyd iterations followed
KMeansMaxIter == 3
\* random_state=0
KMeansSeed == 0

\* squared Euclidean distance of a sample to a centre
KmDist2(p, c) ==
    FAdd(FMul(FSub(p[1], c[1]), FSub(p[1], c[1])),
         FMul(FSub(p[2], c[2]), FSub(p[2], c[2])))
\* the nearest centre, the first of several equally near
KmNearest(p, C) ==
    CHOOSE k \in 1..Len(C) :
        /\ \A j \in 1..Len(C) : KmDist2(p, C[k]) <= KmDist2(p, C[j])
        /\ \A j \in 1..(k - 1) : KmDist2(p, C[k]) < KmDist2(p, C[j])
KmAssign(P, C) == [i \in 1..Len(P) |-> KmNearest(P[i], C)]
\* the mean of the samples assigned to centre k; a centre without samples
\* stays where it is
KmCentre(P, lab, k, old) ==
    LET mem == SelectSeq(Indices(P), LAMBDA i : lab[i] = k)
    IN  IF mem = <<>> THEN old
        ELSE [j \in 1..Len(old) |->
                 Fl(FSum([m \in 1..Len(mem) |-> P[mem[m]][j]]), Len(mem))]
KmUpdate(P, C) == [k \in 1..Len(C) |-> KmCentre(P, KmAssign(P, C), k, C[k])]

\* Lloyd's iterations from the centres C, until they stop moving or the
\* iterations run out
RECURSIVE Lloyd(_, _, _)
Lloyd(P, C, left) ==
    IF left = 0 \/ KmUpdate(P, C) = C THEN C ELSE Lloyd(P, KmUpdate(P, C), left - 1)

\* the first centres: k samples drawn by a generator seeded with seed
KMeansInit(P, k, seed) == [j \in 1..k |-> P[((seed + j - 1) % Len(P)) + 1]]

\* KMeans(n_clusters=k, random_state=seed).fit(P); labels count from 0
KMeansFit(P, k, seed) ==
    LET C == Lloyd(P, KMeansInit(P, k, seed), KMeansMaxIter)
    IN  [n_clusters |-> k, fitted |-> TRUE, cluster_centers_ |-> C,
         labels_ |-> [i \in 1..Len(P) |-> KmNearest(P[i], C) - 1]]
\* kmeans.predict(P)
KMeansPredict(km, P) == [i \in 1..Len(P) |-> KmNearest(P[i], km.cluster_centers_) - 1]

\* kmeans = KMeans(n_clusters, random_state=0).fit(Xn);
\* labels = kmeans.predict(Xn); n_clusters_ = kmeans.n_clusters
CellKMeans ==
    /\ pc = "kmeans"
    /\ kmeans' = KMeansFit(Xn, kmeans.n_clusters, KMeansSeed)
    /\ labels' = KMeansPredict(kmeans', Xn)
    /\ n_clusters_' = kmeans.n_clusters
    /\ pc' = "kmeans_done"
    /\ UNCHANGED <<err, scalerVars, pcaVars, gmmVars, predVars, useVars, rng,
                   gmm_init, em, first, extraVars, Xdb, eps, min_samples, db,
                   core_samples_mask>>

(* --------------------- Each fitting cell run twice -------------------- *)
\* what a run leaves behind
Results ==
    [db |-> db, core_samples_mask |-> core_samples_mask, labels |-> labels,
     n_clusters_ |-> n_clusters_, kmeans |-> kmeans, gmm |-> gmm, seed |-> gmm_init]

\* standardized matrices and gain schedules the cells are run twice on
TwiceMatrices == [1..NRows -> Rows({0, One})]
TwicePoints == [1..NPoints -> {<<0, 0>>, <<1, 0>>, <<2, 1>>}]
TwiceSchedules ==
    { [n \in 1..MaxIterBound |-> 5],
      [n \in 1..MaxIterBound |-> IF n = 1 THEN 5 ELSE 0],
      [n \in 1..MaxIterBound |-> IF n <= 2 THEN 5 ELSE 1] }

InitTwice ==
    /\ pc \in {"dbscan", "kmeans", "gmm_fit"}
    /\ err = "none"
    /\ X = <<>> /\ scaler = NewScaler /\ Xarg = <<>> /\ Xinv = <<>>
    /\ Xn \in IF pc = "kmeans" THEN TwiceMatrices ELSE {<<>>}
    /\ Xdb \in IF pc = "dbscan" THEN TwicePoints ELSE {<<>>}
    /\ eps = 1
    /\ min_samples \in IF pc = "dbscan" THEN {1, 2} ELSE {1}
    /\ db = NewDBSCAN
    /\ core_samples_mask = <<>> /\ labels = <<>> /\ n_clusters_ = 0
    /\ PcaIdle
    /\ K = 2
    /\ max_iter = MaxIterBound
    /\ tol = 2
    /\ gmm = NewGMM
    /\ GmmLoopIdle
    /\ PredIdle
    /\ UseIdle
    /\ rng = 0 /\ gmm_init = 0 /\ first = Absent
    /\ ExtraIdle
    /\ kmeans \in IF pc = "kmeans" THEN {NewKMeans(1), NewKMeans(2)} ELSE {NewKMeans(0)}
    /\ em \in IF pc = "gmm_fit" THEN [Seeds -> TwiceSchedules] ELSE {EmFlat}

\* the cell that has just run is about to be run a second time on the same
\* input: its results are kept aside; the mixture cell builds a new object,
\* and the generator is either where the first run left it or back where
\* the first run found it
RunAgain ==
    /\ pc \in {"dbscan_done", "kmeans_done", "gmm_done"}
    /\ first = Absent
    /\ first' = Some(Results)
    /\ pc' = CASE pc = "dbscan_done" -> "dbscan"
               [] pc = "kmeans_done" -> "kmeans"
               [] pc = "gmm_done" -> "gmm_fit"
    /\ IF pc = "gmm_done"
       THEN /\ gmm' = NewGMM
            /\ warned' = FALSE
            /\ rng' \in {rng, gmm_init}
       ELSE UNCHANGED <<gmm, warned, rng>>
    /\ UNCHANGED <<err, scalerVars, dbVars, pcaVars, predVars, useVars, K, max_iter,
                   tol, n_iter, lower_bound, change, gmm_init, em, kmeans, extraVars>>

NextTwice ==
    \/ DbCell
    \/ CellKMeans
    \/ GmmFitStart
    \/ GmmIterate
    \/ GmmFitEnd
    \/ RunAgain
SpecTwice == InitTwice /\ [][NextTwice]_vars

(* ------------------ Cells run again after a first run ----------------- *)
\* check_array in scaler.fit: the matrix holds at least one row
ScalerInputValid(Ym) == Len(Ym) >= 1
\* DBSCAN.fit: eps must be positive
DbArgValid(e) == e > 0

\* matrices, thresholds and radii a cell is run again with
AgainMatrices == PipeMatrices \cup {<<>>}
AgainMaxVar == {0, 50, 120}
AgainEps == {0, 2}
AgainXdb ==
    { [i \in 1..NPoints |-> <<0, 0>>],
      [i \in 1..NPoints |-> IF i = 1 THEN <<2, 1>> ELSE <<0, 0>>] }

\* the state a full first run leaves: every stage fitted, every sample
\* labelled; one of the fitting cells is about to be run again
AfterRun ==
    /\ DetIdle
    /\ em \in PipeEm
    /\ err = "none"
    /\ X \in PipeMatrices
    /\ scaler = ScalerFit(X)
    /\ Xarg = X /\ Xn = ScalerTransform(ScalerFit(X), X) /\ Xinv = <<>>
    /\ Xdb \in AgainXdb
    /\ eps = 1
    /\ min_samples \in {1, 2}
    /\ db = DbscanFit(Xdb, eps, min_samples)
    /\ core_samples_mask = CoreMask(db)
    /\ labels = db.labels_
    /\ n_clusters_ = CountClusters(labels)
    /\ maxvar \in {50, 90}
    /\ spectrum \in PipeSpectra
    /\ reducer = PcaFitOn(Xn, spectrum, NComponentsArg(maxvar))
    /\ Xr = ReducerTransform(reducer, Xn)
    /\ Xn_reconstructed = ReducerInverseTransform(reducer, Xr)
    /\ X_reconstructed = ScalerInverseTransform(scaler, Xn_reconstructed)
    /\ K = 2
    /\ max_iter = 1 /\ tol \in TolValues
    /\ n_iter = 1 /\ lower_bound = Some(0) /\ change = PlusInf /\ warned = TRUE
    /\ gmm = FittedGMM
    /\ wlik \in PipeLik(K)
    /\ LABELS = Predict(wlik)
    /\ POST = PredictProba(wlik)

InitAgain ==
    /\ pc \in {"scaler_again", "pca_again", "gmm_again", "db_again"}
    /\ AfterRun

\* scaler = preprocessing.StandardScaler(); scaler = scaler.fit(X);
\* Xn = scaler.transform(X), on a new X
CellScalerAgain ==
    /\ pc = "scaler_again"
    /\ \E Y \in AgainMatrices :
        /\ ScalerInputValid(Y)
        /\ X' = Y
        /\ scaler' = ScalerFit(Y)
        /\ Xarg' = Y
        /\ Xn' = ScalerTransform(ScalerFit(Y), Y)
    /\ pc' = "again_done"
    /\ UNCHANGED <<laterVars, err, Xinv, dbVars, pcaVars, gmmVars, predVars>>

\* the same cell on a matrix fit rejects: scaler is already bound to the new
\* object when fit raises
CellScalerAgainRaises ==
    /\ pc = "scaler_again"
    /\ \E Y \in AgainMatrices :
        /\ ~ScalerInputValid(Y)
        /\ X' = Y
    /\ scaler' = NewScaler
    /\ err' = "ValueError"
    /\ pc' = "stopped"
    /\ UNCHANGED <<laterVars, Xarg, Xn, Xinv, dbVars, pcaVars, gmmVars, predVars>>

\* reducer = PCA(n_components=maxvar/100, svd_solver='full'); reducer.fit(Xn),
\* with a new maxvar
CellPcaAgain ==
    /\ pc = "pca_again"
    /\ \E mv \in AgainMaxVar :
        /\ PcaArgValid(NComponentsArg(mv))
        /\ maxvar' = mv
        /\ reducer' = PcaFitOn(Xn, spectrum, NComponentsArg(mv))
    /\ Xr' = ReducerTransform(reducer', Xn)
    /\ Xn_reconstructed' = ReducerInverseTransform(reducer', Xr')
    /\ X_reconstructed' = ScalerInverseTransform(scaler, Xn_reconstructed')
    /\ pc' = "again_done"
    /\ UNCHANGED <<detVars, extraVars, err, scalerVars, dbVars, gmmVars, predVars, spectrum>>

\* a failing PCA cell that would leave the old reducer bound
CellPcaAgainRaisesKeeping ==
    /\ pc = "pca_again"
    /\ \E mv \in AgainMaxVar :
        /\ ~PcaArgValid(NComponentsArg(mv))
        /\ maxvar' = mv
    /\ err' = "ValueError"
    /\ pc' = "stopped"
    /\ UNCHANGED <<laterVars, scalerVars, dbVars, gmmVars, predVars, spectrum, reducer>>
\* the same cell when fit rejects n_components: reducer is already bound to
\* the new object when fit raises
CellPcaAgainRaises ==
    /\ pc = "pca_again"
    /\ \E mv \in AgainMaxVar :
        /\ ~PcaArgValid(NComponentsArg(mv))
        /\ maxvar' = mv
    /\ reducer' = NewPCA
    /\ err' = "ValueError"
    /\ pc' = "stopped"
    /\ UNCHANGED <<laterVars, scalerVars, dbVars, gmmVars, predVars, spectrum>>

\* gmm = GaussianMixture(n_components=K, ...) with new K and max_iter; the
\* call gmm.fit(Xr) follows in the steps of fit
CellGmmAgain ==
    /\ pc = "gmm_again"
    /\ K' \in FitK
    /\ max_iter' \in MaxIterValues
    /\ gmm' = NewGMM
    /\ warned' = FALSE
    /\ pc' = "gmm_fit"
    /\ UNCHANGED <<laterVars, err, scalerVars, dbVars, pcaVars, predVars, tol, n_iter,
                   lower_bound, change>>

\* an interrupt that would put the unfitted object back
GmmInterruptRollingBack ==
    /\ pc = "gmm_iter"
    /\ gmm' = NewGMM
    /\ err' = "KeyboardInterrupt"
    /\ pc' = "stopped"
    /\ UNCHANGED <<laterVars, scalerVars, dbVars, pcaVars, predVars, K, max_iter, tol,
                   n_iter, lower_bound, change, warned>>
\* a KeyboardInterrupt delivered between two iterations of fit's loop
GmmInterrupt ==
    /\ pc = "gmm_iter"
    /\ err' = "KeyboardInterrupt"
    /\ pc' = "stopped"
    /\ UNCHANGED <<laterVars, scalerVars, dbVars, pcaVars, gmmVars, predVars>>

\* db = DBSCAN(eps, min_samples).fit(Xn) and the lines after it, with a new eps
CellDbAgain ==
    /\ pc = "db_again"
    /\ \E e \in AgainEps :
        /\ DbArgValid(e)
        /\ eps' = e
        /\ db' = DbscanFit(Xdb, e, min_samples)
    /\ core_samples_mask' = CoreMask(db')
    /\ labels' = db'.labels_
    /\ n_clusters_' = CountClusters(labels')
    /\ pc' = "again_done"
    /\ UNCHANGED <<laterVars, err, scalerVars, pcaVars, gmmVars, predVars, Xdb, min_samples>>

\* the same cell when fit rejects eps: the assignment to db never happens
CellDbAgainRaises ==
    /\ pc = "db_again"
    /\ \E e \in AgainEps :
        /\ ~DbArgValid(e)
        /\ eps' = e
    /\ err' = "ValueError"
    /\ pc' = "stopped"
    /\ UNCHANGED <<laterVars, scalerVars, pcaVars, gmmVars, predVars, Xdb, min_samples, db,
                   core_samples_mask, labels, n_clusters_>>

NextAgain ==
    \/ CellScalerAgain
    \/ CellScalerAgainRaises
    \/ CellPcaAgain
    \/ CellPcaAgainRaises
    \/ CellGmmAgain
    \/ GmmFitStart
    \/ GmmFitRaises
    \/ GmmIterate
    \/ GmmIterateRaises
    \/ GmmFitEnd
    \/ GmmInterrupt
    \/ CellDbAgain
    \/ CellDbAgainRaises
SpecAgain == InitAgain /\ [][NextAgain]_vars

(* ------------- The fitted stages used, in any order ------------------- *)
\* the run has fitted every stage; the clusterer's and the fit's settings,
\* which the calls below never read, are held at one value
InitUse ==
    /\ pc = "use"
    /\ AfterRun
    /\ min_samples = 1 /\ tol = 0 /\ em = EmFlat

\* scaler.fit_transform(Y), which fits again before it transforms
UseScalerFitTransform ==
    /\ pc = "use"
    /\ \E Y \in PipeMatrices :
        /\ Xarg' = Y
        /\ scaler' = ScalerFit(Y)
        /\ Xn' = ScalerTransform(ScalerFit(Y), Y)
    /\ UNCHANGED <<pc, err, X, Xinv, dbVars, pcaVars, gmmVars, predVars, laterVars>>
\* Xn = scaler.transform(Y)
UseScalerTransform ==
    /\ pc = "use"
    /\ \E Y \in PipeMatrices :
        /\ Xarg' = Y
        /\ Xn' = ScalerTransform(scaler, Y)
    /\ UNCHANGED <<pc, err, X, scaler, Xinv, dbVars, pcaVars, gmmVars, predVars, laterVars>>
\* Xr = reducer.transform(Xn)
UseReducerTransform ==
    /\ pc = "use"
    /\ Xr' = ReducerTransform(reducer, Xn)
    /\ UNCHANGED <<pc, err, scalerVars, dbVars, pcaVars, gmmVars, predVars, detVars, extraVars,
                   Xn_reconstructed, X_reconstructed>>
\* Xn_reconstructed = reducer.inverse_transform(Xr)
UseReducerInverse ==
    /\ pc = "use"
    /\ Xn_reconstructed' = ReducerInverseTransform(reducer, Xr)
    /\ UNCHANGED <<pc, err, scalerVars, dbVars, pcaVars, gmmVars, predVars, detVars, extraVars,
                   Xr, X_reconstructed>>
\* X_reconstructed = scaler.inverse_transform(Xn_reconstructed)
UseScalerInverse ==
    /\ pc = "use"
    /\ X_reconstructed' = ScalerInverseTransform(scaler, Xn_reconstructed)
    /\ UNCHANGED <<pc, err, scalerVars, dbVars, pcaVars, gmmVars, predVars, detVars, extraVars,
                   Xr, Xn_reconstructed>>
\* LABELS = gmm.predict(Xr), on the weighted likelihoods of the rows of Xr
UsePredict ==
    /\ pc = "use"
    /\ \E W \in PipeLik(K) :
        /\ wlik' = W
        /\ LABELS' = Predict(W)
    /\ UNCHANGED <<pc, err, scalerVars, dbVars, pcaVars, gmmVars, POST, laterVars>>
\* POST = gmm.predict_proba(Xr)
UsePredictProba ==
    /\ pc = "use"
    /\ \E W \in PipeLik(K) :
        /\ wlik' = W
        /\ POST' = PredictProba(W)
    /\ UNCHANGED <<pc, err, scalerVars, dbVars, pcaVars, gmmVars, LABELS, laterVars>>

NextUse ==
    \/ UseScalerTransform
    \/ UseReducerTransform
    \/ UseReducerInverse
    \/ UseScalerInverse
    \/ UsePredict
    \/ UsePredictProba
SpecUse == InitUse /\ [][NextUse]_vars

(* ------------- A call made on the parts of a matrix ------------------- *)
\* the workers the rows are dealt to
NWorkers == 2
ParOps == {"scaler.transform", "reducer.transform", "gmm.predict", "gmm.predict_proba"}
\* sample matrices with rows that all differ or partly agree, and likelihoods
\* of their rows
ParMatrices ==
    { [i \in 1..NRows |-> <<i * One, 0>>],
      [i \in 1..NRows |-> <<One, i * One>>],
      [i \in 1..NRows |-> IF i = 1 THEN <<3 * One, 0>> ELSE <<0, One>>] }
ParInputs(op) ==
    IF op \in {"scaler.transform", "reducer.transform"}
    THEN ParMatrices
    ELSE PipeLik(K)
\* every way of dealing the rows to the workers that leaves no worker idle
Partitions(n) ==
    {f \in [1..n -> 1..NWorkers] : \A w \in 1..NWorkers : \E i \in 1..n : f[i] = w}

\* a call that fits the scaler on the rows it is handed before it transforms
ApplyRefitted(op, Ym) ==
    CASE op = "scaler.transform" -> ScalerTransform(ScalerFit(Ym), Ym)
      [] op = "reducer.transform" -> ReducerTransform(reducer, Ym)
      [] op = "gmm.predict" -> Predict(Ym)
      [] op = "gmm.predict_proba" -> PredictProba(Ym)
\* one call of the fitted stage on the rows Ym
Apply(op, Ym) ==
    CASE op = "scaler.transform" -> ScalerTransform(scaler, Ym)
      [] op = "reducer.transform" -> ReducerTransform(reducer, Ym)
      [] op = "gmm.predict" -> Predict(Ym)
      [] op = "gmm.predict_proba" -> PredictProba(Ym)

\* the rows dealt to worker w, in row order, and the place of row i among
\* the rows of its worker
RowsOf(part, w) == SelectSeq([i \in 1..Len(part) |-> i], LAMBDA i : part[i] = w)
Take(Ym, idx) == [k \in 1..Len(idx) |-> Ym[idx[k]]]
Rank(part, i) == Cardinality({j \in 1..i : part[j] = part[i]})

InitParts ==
    /\ pc = "split"
    /\ AfterRun
    /\ min_samples = 1 /\ tol = 0 /\ em = EmFlat
    /\ wlik = [i \in 1..NRows |-> [j \in 1..K |-> 1]]
    /\ Xdb = [i \in 1..NPoints |-> <<0, 0>>]

\* the rows of the matrix are dealt to the workers
ParSplit ==
    /\ pc = "split"
    /\ \E op \in ParOps : \E Ym \in ParInputs(op) : \E f \in Partitions(Len(Ym)) :
        par' = [op |-> op, input |-> Ym, part |-> f,
                state |-> [w \in 1..NWorkers |-> "waiting"],
                out |-> [w \in 1..NWorkers |-> <<>>], result |-> <<>>]
    /\ pc' = "parts"
    /\ UNCHANGED <<err, scalerVars, dbVars, pcaVars, gmmVars, predVars, detVars,
                   useVars, dask, nbVars>>

\* a worker starts its call while the others wait, run or have finished
ParStart(w) ==
    /\ pc = "parts"
    /\ par.state[w] = "waiting"
    /\ par' = [par EXCEPT !.state[w] = "running"]
    /\ UNCHANGED <<pc, err, scalerVars, dbVars, pcaVars, gmmVars, predVars, detVars,
                   useVars, dask, nbVars>>

\* its call returns the result for its rows
ParFinish(w) ==
    /\ pc = "parts"
    /\ par.state[w] = "running"
    /\ par' = [par EXCEPT !.state[w] = "done",
                          !.out[w] = Apply(par.op, Take(par.input, RowsOf(par.part, w)))]
    /\ UNCHANGED <<pc, err, scalerVars, dbVars, pcaVars, gmmVars, predVars, detVars,
                   useVars, dask, nbVars>>

\* the results are put back in row order
ParGather ==
    /\ pc = "parts"
    /\ \A w \in 1..NWorkers : par.state[w] = "done"
    /\ par' = [par EXCEPT !.result =
                   [i \in 1..Len(par.input) |-> par.out[par.part[i]][Rank(par.part, i)]]]
    /\ pc' = "gathered"
    /\ UNCHANGED <<err, scalerVars, dbVars, pcaVars, gmmVars, predVars, detVars,
                   useVars, dask, nbVars>>

NextParts ==
    \/ ParSplit
    \/ \E w \in 1..NWorkers : ParStart(w)
    \/ \E w \in 1..NWorkers : ParFinish(w)
    \/ ParGather
SpecParts == InitParts /\ [][NextParts]_vars

(* ---------------- 03-Dask_Graph: eager and delayed calls --------------- *)
\* the most tasks a scheduler runs at the same time
MaxSlots == 2

Keys == {"inc", "dec", "add"}
\* bodies that would all sleep one second
SleepOne(k) == 1
\* time.sleep(...) in the body of each function, in seconds
Sleep(k) == CASE k = "inc" -> 2 [] k = "dec" -> 3 [] k = "add" -> 1
\* what the body returns
Body(k, a) ==
    CASE k = "inc" -> a[1] + 1
      [] k = "dec" -> a[1] - 1
      [] k = "add" -> a[1] + a[2]

\* what a name is bound to: nothing, a number, or a Delayed object
NoV == [kind |-> "none", val |-> 0, key |-> ""]
IntV(v) == [kind |-> "int", val |-> v, key |-> ""]
DelayedV(k) == [kind |-> "delayed", val |-> 0, key |-> k]

\* the three statements x = inc(1); y = dec(2); z = add(x, y)
Statements == <<"inc", "dec", "add">>
ArgsOf(k) ==
    CASE k = "inc" -> <<IntV(1)>>
      [] k = "dec" -> <<IntV(2)>>
      [] k = "add" -> <<dask.x, dask.y>>
Bind(d, k, v) ==
    CASE k = "inc" -> [d EXCEPT !.x = v]
      [] k = "dec" -> [d EXCEPT !.y = v]
      [] k = "add" -> [d EXCEPT !.z = v]

\* the value of an argument: a number, or the result of the task it names
ArgValue(a) == IF a.kind = "delayed" THEN dask.res[a.key] ELSE a.val
ArgValues(k) == [i \in 1..Len(dask.graph[k]) |-> ArgValue(dask.graph[k][i])]
\* the tasks a task waits for
Deps(k) == {dask.graph[k][i].key : i \in {j \in 1..Len(dask.graph[k]) :
                                              dask.graph[k][j].kind = "delayed"}}
Running == {k \in Keys : dask.task[k] = "running"}

\* a task that would start whatever the state of its arguments
ReadyAlways(k) == TRUE
\* a task is ready when every task it waits for is done
Ready(k) == \A d \in Deps(k) : dask.task[d] = "done"

NoTask == [k \in Keys |-> "idle"]
Zeros == [k \in Keys |-> 0]

\* the kernel after the cell that defines inc, dec and add
DaskStart ==
    [cell |-> "eager", stmt |-> 1, wrapped |-> FALSE, client |-> FALSE,
     x |-> NoV, y |-> NoV, z |-> NoV, out |-> NoV,
     graph |-> [k \in Keys |-> <<>>], task |-> NoTask, left |-> Zeros,
     res |-> Zeros, runs |-> Zeros, calls |-> Zeros, wall |-> 0, slots |-> 1]

notDask ==
    <<pc, err, scalerVars, dbVars, pcaVars, gmmVars, predVars, detVars, useVars, par, nbVars>>

InitDask ==
    /\ pc = "dask"
    /\ err = "none"
    /\ ScalerIdle /\ DbIdle /\ PcaIdle /\ GmmIdle /\ PredIdle /\ UseIdle
    /\ rng = 0 /\ gmm_init = 0 /\ first = Absent /\ kmeans = NewKMeans(0)
    /\ em = EmFlat
    /\ par = ParIdle
    /\ NbIdle
    /\ dask = DaskStart

\* x = inc(1), y = dec(2) or z = add(x, y) with the plain functions: the
\* call enters the body
EagerCall ==
    /\ pc = "dask" /\ dask.cell = "eager"
    /\ Running = {}
    /\ LET k == Statements[dask.stmt]
       IN  dask' = [dask EXCEPT !.task[k] = "running", !.left[k] = Sleep(k),
                                !.graph[k] = ArgsOf(k),
                                !.calls[k] = @ + 1]
    /\ UNCHANGED notDask

\* one second passes for every body that is asleep
Tick ==
    /\ pc = "dask"
    /\ Running # {}
    /\ \A k \in Running : dask.left[k] > 0
    /\ dask' = [dask EXCEPT !.left = [k \in Keys |-> IF k \in Running THEN @[k] - 1 ELSE @[k]],
                            !.wall = @ + 1]
    /\ UNCHANGED notDask

\* the body returns and the name is bound to the number; after the third
\* statement, print("z =", z)
EagerReturn ==
    /\ pc = "dask" /\ dask.cell = "eager"
    /\ LET k == Statements[dask.stmt]
           v == IntV(Body(k, [i \in 1..Len(dask.graph[k]) |-> dask.graph[k][i].val]))
           d == Bind([dask EXCEPT !.task[k] = "idle"], k, v)
       IN  /\ dask.task[k] = "running" /\ dask.left[k] = 0
           /\ dask' = IF dask.stmt < Len(Statements)
                      THEN [d EXCEPT !.stmt = @ + 1]
                      ELSE [d EXCEPT !.stmt = 1, !.out = v, !.cell = "wrap"]
    /\ UNCHANGED notDask

\* inc = dask.delayed(inc); dec = dask.delayed(dec); add = dask.delayed(add)
DaskWrap ==
    /\ pc = "dask" /\ dask.cell = "wrap"
    /\ dask' = [dask EXCEPT !.wrapped = TRUE, !.cell = "lazy", !.wall = 0]
    /\ UNCHANGED notDask

\* a call of a wrapped function that would run the body all the same
LazyCallRunsBody ==
    /\ pc = "dask" /\ dask.cell = "lazy"
    /\ LET k == Statements[dask.stmt]
           d == Bind([dask EXCEPT !.graph[k] = ArgsOf(k), !.calls[k] = @ + 1], k, DelayedV(k))
       IN  dask' = IF dask.stmt < Len(Statements)
                   THEN [d EXCEPT !.stmt = @ + 1]
                   ELSE [d EXCEPT !.stmt = 1, !.out = DelayedV(k), !.cell = "show"]
    /\ UNCHANGED notDask
\* x = inc(1), y = dec(2) or z = add(x, y) with the wrapped functions: the
\* call records the function and its arguments and returns a Delayed object;
\* after the third statement, print("z =", z)
LazyCall ==
    /\ pc = "dask" /\ dask.cell = "lazy"
    /\ LET k == Statements[dask.stmt]
           d == Bind([dask EXCEPT !.graph[k] = ArgsOf(k)], k, DelayedV(k))
       IN  dask' = IF dask.stmt < Len(Statements)
                   THEN [d EXCEPT !.stmt = @ + 1]
                   ELSE [d EXCEPT !.stmt = 1, !.out = DelayedV(k), !.cell = "show"]
    /\ UNCHANGED notDask

\* z.visualize(rankdir='LR'): draws the graph
Visualize ==
    /\ pc = "dask" /\ dask.cell = "show"
    /\ dask' = [dask EXCEPT !.cell = "local"]
    /\ UNCHANGED notDask

\* z.compute(): the scheduler takes the graph of z, with as many slots as
\* the machine or the cluster gives it
ComputeStart ==
    /\ pc = "dask" /\ dask.cell \in {"local", "distributed"}
    /\ dask.task = NoTask
    /\ \E n \in 1..MaxSlots :
        dask' = [dask EXCEPT !.task = [k \in Keys |-> "pending"], !.runs = Zeros,
                             !.res = Zeros, !.slots = n, !.wall = 0]
    /\ UNCHANGED notDask

\* the scheduler hands a ready task to a free slot: its body starts
TaskStart(k) ==
    /\ pc = "dask" /\ dask.cell \in {"local", "distributed"}
    /\ dask.task[k] = "pending"
    /\ Ready(k)
    /\ Cardinality(Running) < dask.slots
    /\ dask' = [dask EXCEPT !.task[k] = "running", !.left[k] = Sleep(k),
                            !.runs[k] = @ + 1, !.calls[k] = @ + 1]
    /\ UNCHANGED notDask

\* the body returns: the scheduler keeps the result for the tasks that wait
TaskFinish(k) ==
    /\ pc = "dask" /\ dask.cell \in {"local", "distributed"}
    /\ dask.task[k] = "running" /\ dask.left[k] = 0
    /\ dask' = [dask EXCEPT !.task[k] = "done", !.res[k] = Body(k, ArgValues(k))]
    /\ UNCHANGED notDask

\* compute returns the result of z's task; print("z =", z.compute())
ComputeReturn ==
    /\ pc = "dask" /\ dask.cell \in {"local", "distributed"}
    /\ dask.task[dask.z.key] = "done"
    /\ dask' = [dask EXCEPT !.out = IntV(dask.res[dask.z.key]), !.task = NoTask,
                            !.cell = IF dask.cell = "local" THEN "client" ELSE "end"]
    /\ UNCHANGED notDask

\* client = Client("tcp://127.0.0.1:39281"): the scheduler at that address
\* answers, and the client becomes the scheduler of compute
ClientConnects ==
    /\ pc = "dask" /\ dask.cell = "client"
    /\ dask' = [dask EXCEPT !.client = TRUE, !.cell = "distributed"]
    /\ UNCHANGED notDask

\* no scheduler answers at that address: Client raises and the run stops
ClientRaises ==
    /\ pc = "dask" /\ dask.cell = "client"
    /\ err' = "OSError"
    /\ pc' = "stopped"
    /\ UNCHANGED <<scalerVars, dbVars, pcaVars, gmmVars, predVars, laterVars>>

NextDask ==
    \/ EagerCall
    \/ Tick
    \/ EagerReturn
    \/ DaskWrap
    \/ LazyCall
    \/ Visualize
    \/ ComputeStart
    \/ \E k \in Keys : TaskStart(k)
    \/ \E k \in Keys : TaskFinish(k)
    \/ ComputeReturn
    \/ ClientConnects
    \/ ClientRaises
SpecDask == InitDask /\ [][NextDask]_vars
FairSpecDask == SpecDask /\ WF_vars(NextDask)

(* ------- Clustering-Tuto-3-PCM: profiles drawn for the figure --------- *)
\* the most profiles the data set holds
MaxNp == 6
\* n, the number of draws (150 in the notebook), and the number of profiles
\* its comment announces (100), both scaled down in the same proportion
NDraws == 3
NSelected == 2

\* the elements of a set of numbers in ascending order
RECURSIVE Ascending(_)
Ascending(S) ==
    IF S = {} THEN <<>>
    ELSE LET a == CHOOSE v \in S : \A w \in S : v <= w
         IN  <<a>> \o Ascending(S \ {a})
\* np.unique: the distinct values, sorted
Unique(d) == Ascending({d[i] : i \in 1..Len(d)})
\* np.random.randint(low, high, n): n draws from low..high-1, with repeats
RandInt(low, high, n) == [1..n -> low..(high - 1)]

InitSelect ==
    /\ pc = "select"
    /\ err = "none"
    /\ ScalerIdle /\ DbIdle /\ PcaIdle /\ GmmIdle /\ PredIdle /\ UseIdle
    /\ rng = 0 /\ gmm_init = 0 /\ first = Absent /\ kmeans = NewKMeans(0)
    /\ em = EmFlat
    /\ par = ParIdle /\ dask = DaskIdle /\ tuto = TutoIdle
    /\ \E np \in 1..MaxNp : sel = [Np |-> np, draws |-> <<>>, ip |-> <<>>]

\* n = 150; ip = np.unique(np.random.randint(0, Np-1, n))
SelectProfiles ==
    /\ pc = "select"
    /\ 0 < sel.Np - 1
    /\ \E d \in RandInt(0, sel.Np - 1, NDraws) :
        sel' = [sel EXCEPT !.draws = d, !.ip = Unique(d)]
    /\ pc' = "selected"
    /\ UNCHANGED <<err, scalerVars, dbVars, pcaVars, gmmVars, predVars, detVars,
                   useVars, par, dask, tuto>>

\* randint raises when its range low..high-1 is empty (one profile only)
SelectRaises ==
    /\ pc = "select"
    /\ ~(0 < sel.Np - 1)
    /\ err' = "ValueError"
    /\ pc' = "stopped"
    /\ UNCHANGED <<scalerVars, dbVars, pcaVars, gmmVars, predVars, laterVars>>

NextSelect == SelectProfiles \/ SelectRaises
SpecSelect == InitSelect /\ [][NextSelect]_vars

(* ------------- The cells of Clustering-Tuto-2 in order ---------------- *)
\* n, the number of profiles kept by the sub-sampling
NKeep == 2

\* the depth levels of the data set and its two variables
DepthLevels == {0, -250, -1000}
Variables == {"TEMP", "PSAL"}
\* .sel(DEPTH=z, method='nearest'): the level nearest to z
Nearest(z) == CHOOSE d \in DepthLevels : \A e \in DepthLevels : Abs(d - z) <= Abs(e - z)
\* ds[name].sel(DEPTH=z, method='nearest')
SelectLevel(ds, name, z) ==
    [name |-> name, depth |-> Nearest(z), values |-> ds[<<name, Nearest(z)>>]]
NoFeature == [name |-> "", depth |-> 0, values |-> <<>>]

\* RES = xr.concat([feat_0, feat_1], dim='N_FEATURES') with its attributes
Concat(f0, f1) ==
    [values |-> <<f0.values, f1.values>>,
     feature_0 |-> <<f0.name, f0.depth>>, feature_1 |-> <<f1.name, f1.depth>>,
     TEMPnorm |-> <<>>, PSALnorm |-> <<>>, DBSCAN |-> <<>>, KMEANS |-> <<>>]
\* RES.isel(N_PROF=ii), ii counting from 0
ISel(res, ii) ==
    [res EXCEPT !.values = [f \in 1..Len(@) |-> [k \in 1..Len(ii) |-> @[f][ii[k] + 1]]]]
\* RES.values.T: one row per profile
ValuesT(res) ==
    [i \in 1..Len(res.values[1]) |-> [f \in 1..Len(res.values) |-> res.values[f][i]]]
\* np.random.choice(range(N), n, replace=False): n different positions
Choice(N, n) == {q \in [1..n -> 0..(N - 1)] : \A i, j \in 1..n : i # j => q[i] # q[j]}

\* profiles of the data set at one level of one variable
LevelValues == {[i \in 1..NRows |-> i * One], [i \in 1..NRows |-> (NRows - i) * One]}

InitTuto ==
    /\ pc = "eg1"
    /\ err = "none"
    /\ ScalerIdle /\ PcaIdle /\ GmmIdle /\ PredIdle /\ UseIdle
    /\ Xdb = <<>> /\ eps = One \div 10 /\ min_samples \in {1, 2}
    /\ db = NewDBSCAN
    /\ core_samples_mask = <<>> /\ labels = <<>> /\ n_clusters_ = 0
    /\ rng = 0 /\ gmm_init = 0 /\ first = Absent
    /\ kmeans \in {NewKMeans(1), NewKMeans(2)}
    /\ em = EmFlat
    /\ par = ParIdle /\ dask = DaskIdle /\ sel = SelIdle
    /\ \E d \in [Variables \X DepthLevels -> LevelValues] :
        tuto = [ds |-> d, feat_0 |-> NoFeature, feat_1 |-> NoFeature,
                RES |-> Concat(NoFeature, NoFeature), ii |-> <<>>]

notTuto ==
    <<err, scalerVars, dbVars, pcaVars, gmmVars, predVars, detVars, useVars, par,
      dask, sel>>

\* Eg 1: z = -250; feat_0 = ds['TEMP'].sel(DEPTH=z, ...); feat_1 = ds['PSAL'].sel(DEPTH=z, ...)
CellEg1 ==
    /\ pc = "eg1"
    /\ tuto' = [tuto EXCEPT !.feat_0 = SelectLevel(tuto.ds, "TEMP", -250),
                            !.feat_1 = SelectLevel(tuto.ds, "PSAL", -250)]
    /\ pc' = "eg2"
    /\ UNCHANGED notTuto

\* the Eg 2 cell left out of the run
CellEg2Skipped ==
    /\ pc = "eg2"
    /\ pc' = "res"
    /\ UNCHANGED <<notTuto, tuto>>
\* Eg 2: feat_0 = ds['TEMP'].sel(DEPTH=0, ...); feat_1 = ds['TEMP'].sel(DEPTH=-1000, ...)
CellEg2 ==
    /\ pc = "eg2"
    /\ tuto' = [tuto EXCEPT !.feat_0 = SelectLevel(tuto.ds, "TEMP", 0),
                            !.feat_1 = SelectLevel(tuto.ds, "TEMP", -1000)]
    /\ pc' = "res"
    /\ UNCHANGED notTuto

\* RES = xr.concat([feat_0, feat_1], dim='N_FEATURES'); RES.attrs['feature_0'], ['feature_1']
CellRes ==
    /\ pc = "res"
    /\ tuto' = [tuto EXCEPT !.RES = Concat(tuto.feat_0, tuto.feat_1)]
    /\ pc' = "subsample"
    /\ UNCHANGED notTuto

\* ii = np.random.choice(range(len(RES.N_PROF)), n, replace=False); RES = RES.isel(N_PROF=ii)
CellSubsample ==
    /\ pc = "subsample"
    /\ \E q \in Choice(Len(tuto.RES.values[1]), NKeep) :
        tuto' = [tuto EXCEPT !.ii = q, !.RES = ISel(tuto.RES, q)]
    /\ pc' = "scaler_t2"
    /\ UNCHANGED notTuto

\* X = RES.values.T; scaler = StandardScaler().fit(X); Xn = scaler.transform(X);
\* RES['TEMPnorm'] = Xn[:,0]; RES['PSALnorm'] = Xn[:,1]
CellTutoScaler ==
    /\ pc = "scaler_t2"
    /\ X' = ValuesT(tuto.RES)
    /\ scaler' = ScalerFit(X')
    /\ Xarg' = X'
    /\ Xn' = ScalerTransform(scaler', X')
    /\ tuto' = [tuto EXCEPT !.RES.TEMPnorm = Col(Xn', 1), !.RES.PSALnorm = Col(Xn', 2)]
    /\ pc' = "dbscan_t2"
    /\ UNCHANGED <<err, Xinv, dbVars, pcaVars, gmmVars, predVars, detVars, useVars, par,
                   dask, sel>>

\* db = DBSCAN(eps, min_samples).fit(Xn); core_samples_mask; labels;
\* n_clusters_; RES['DBSCAN'] = labels
CellTutoDbscan ==
    /\ pc = "dbscan_t2"
    /\ Xdb' = Xn
    /\ db' = DbscanFit(Xn, eps, min_samples)
    /\ core_samples_mask' = CoreMask(db')
    /\ labels' = db'.labels_
    /\ n_clusters_' = CountClusters(labels')
    /\ tuto' = [tuto EXCEPT !.RES.DBSCAN = labels']
    /\ pc' = "kmeans_t2"
    /\ UNCHANGED <<err, scalerVars, pcaVars, gmmVars, predVars, detVars, useVars, par,
                   dask, sel, eps, min_samples>>

\* kmeans = KMeans(n_clusters, random_state=0).fit(Xn); labels = kmeans.predict(Xn);
\* n_clusters_ = kmeans.n_clusters; RES['KMEANS'] = labels
CellTutoKMeans ==
    /\ pc = "kmeans_t2"
    /\ kmeans' = KMeansFit(Xn, kmeans.n_clusters, KMeansSeed)
    /\ labels' = KMeansPredict(kmeans', Xn)
    /\ n_clusters_' = kmeans.n_clusters
    /\ tuto' = [tuto EXCEPT !.RES.KMEANS = labels']
    /\ pc' = "t2_done"
    /\ UNCHANGED <<err, scalerVars, pcaVars, gmmVars, predVars, useVars, par, dask, sel,
                   rng, gmm_init, em, first, Xdb, eps, min_samples, db, core_samples_mask>>

NextTuto ==
    \/ CellEg1
    \/ CellEg2
    \/ CellRes
    \/ CellSubsample
    \/ CellTutoScaler
    \/ CellTutoDbscan
    \/ CellTutoKMeans
SpecTuto == InitTuto /\ [][NextTuto]_vars






(* ---------------- density vocabulary used by C1 and C2 ---------------- *)
DbDone == pc = "dbscan_done"
Samples == 1..Len(Xdb)
Near(i, j) == Dist2(Xdb[i], Xdb[j]) <= eps * eps
\* samples with at least min_samples samples within eps, themselves counted
DenseSamples == {i \in Samples : Cardinality({j \in Samples : Near(i, j)}) >= min_samples}
\* the dense samples joined to those of S by chains of dense samples
RECURSIVE ChainedIn(_, _)
ChainedIn(D, S) ==
    LET T == S \cup {j \in D : \E i \in S : Near(i, j)}
    IN  IF T = S THEN S ELSE ChainedIn(D, T)
Chained(S) == ChainedIn(DenseSamples, S)
\* the samples density-reachable from the dense sample o
Reachable(o) == Chained({o}) \cup {p \in Samples : \E c \in Chained({o}) : Near(c, p)}
\* the sets of samples density-reachable from one dense sample; two samples
\* are density-connected when one of these sets holds both
ReachableSets == {Reachable(o) : o \in DenseSamples}

(* C1: after fit, a sample is flagged core exactly when at least            *)
(* min_samples samples (itself included) lie within eps of it; core samples *)
(* within eps of each other, and core samples joined by a chain of such     *)
(* steps, carry the same cluster label; a non-core sample within eps of a   *)
(* core sample carries the label of such a core sample; every other sample  *)
(* carries the noise label -1.                                              *)
C1_DbscanLabelling ==
    DbDone =>
        LET D == DenseSamples
        IN  /\ \A i \in Samples : core_samples_mask[i] <=> i \in D
            /\ \A i \in D : labels[i] # Noise
            /\ \A i \in D : \A j \in D : Near(i, j) => labels[i] = labels[j]
            /\ \A i \in D : \A j \in ChainedIn(D, {i}) : labels[i] = labels[j]
            /\ \A p \in Samples \ D :
                   IF \E c \in D : Near(c, p)
                   THEN \E c \in D : Near(c, p) /\ labels[p] = labels[c]
                   ELSE labels[p] = Noise

\* a fit with two core samples joined only through a chain of core samples,
\* and a noise sample
C1_Witness ==
    /\ DbDone
    /\ \E i \in DenseSamples : \E j \in Chained({i}) : ~Near(i, j)
    /\ \E p \in Samples : labels[p] = Noise

\* samples farther than eps from every other sample, and the rest
Outliers == {i \in Samples : \A j \in Samples \ {i} : ~Near(i, j)}
Blob == Samples \ Outliers
OneBlobPlusOutliers ==
    /\ Blob # {}
    /\ Outliers # {}
    /\ LET R == ReachableSets
       IN  \A p \in Blob : \A q \in Blob : \E S \in R : p \in S /\ q \in S
OneClusterFound ==
    /\ \A o \in Outliers : labels[o] = Noise
    /\ \A p \in Blob : \A q \in Blob : labels[p] = labels[q] /\ labels[p] # Noise
    /\ n_clusters_ = 1

(* C2 (as stated): on one dense blob plus isolated outliers, every outlier  *)
(* gets the noise label -1 and all blob samples get one and the same        *)
(* non-noise label, so exactly one cluster is found.                        *)
C2_BlobAndOutliers == DbDone /\ OneBlobPlusOutliers => OneClusterFound

(* C2 (amended): the same, for min_samples >= 2 (with min_samples = 1 an    *)
(* isolated sample is a core sample and forms a cluster of its own).        *)
C2_BlobAndOutliersMinSamples2 ==
    DbDone /\ min_samples >= 2 /\ OneBlobPlusOutliers => OneClusterFound

\* a blob holding a border sample, and an outlier, with min_samples >= 2
C2_Witness ==
    /\ DbDone
    /\ OneBlobPlusOutliers
    /\ min_samples >= 2
    /\ Blob \ DenseSamples # {}
    /\ OneClusterFound

(* ----------------------- vocabulary of C4 and C5 ----------------------- *)
PcaDone == pc = "pca_done"
Threshold == NComponentsArg(maxvar)
\* cumulative explained-variance fraction of the first c retained components
CumFraction(c) == FSum(Prefix(reducer.explained_variance_ratio_, c))
\* ... of all the components of the data
TotalFraction == FSum(ExplainedVarianceRatio(spectrum))
RankedDescending ==
    /\ \A k \in 1..Len(reducer.components_) :
           spectrum[reducer.components_[k]] = reducer.explained_variance_[k]
    /\ \A k \in 1..(Len(reducer.components_) - 1) :
           reducer.explained_variance_[k] >= reducer.explained_variance_[k + 1]
    /\ \A a \in 1..NAxes :
           \/ a \in SeqRange(reducer.components_)
           \/ \A k \in 1..Len(reducer.components_) :
                  spectrum[a] <= reducer.explained_variance_[k]

(* C4 (as stated): fit orders the components by descending explained       *)
(* variance and retains exactly C components, C the smallest number with    *)
(* the sum of the first C fractions >= variance_threshold (with C-1         *)
(* components the sum is < variance_threshold).                             *)
C4_SmallestPrefixReaching ==
    PcaDone =>
        /\ RankedDescending
        /\ Len(reducer.components_) = reducer.n_components_
        /\ CumFraction(reducer.n_components_) >= Threshold
        /\ CumFraction(reducer.n_components_ - 1) < Threshold

(* C4 (amended): fit orders the components by descending explained         *)
(* variance and, when the fractions of all components sum to more than      *)
(* variance_threshold, retains exactly C components, C the smallest number  *)
(* with the sum of the first C fractions > variance_threshold (with C-1     *)
(* components the sum is <= variance_threshold).                            *)
C4_SmallestPrefixExceeding ==
    PcaDone =>
        /\ RankedDescending
        /\ TotalFraction > Threshold =>
              /\ Len(reducer.components_) = reducer.n_components_
              /\ CumFraction(reducer.n_components_) > Threshold
              /\ CumFraction(reducer.n_components_ - 1) <= Threshold

\* a fit where the first component alone reaches the threshold exactly, and
\* a second one is retained
C4_Witness ==
    /\ PcaDone
    /\ TotalFraction > Threshold
    /\ reducer.n_components_ = 2
    /\ CumFraction(1) = Threshold
    /\ reducer.explained_variance_[1] > reducer.explained_variance_[2]

(* C5 (as stated): the cumulative explained-variance fraction of the first  *)
(* c retained components, c = 0..C, is non-decreasing in c and within       *)
(* [0, 1].                                                                  *)
C5_CumulativeWithinUnit ==
    PcaDone =>
        \A c \in 0..Len(reducer.explained_variance_ratio_) :
            /\ 0 <= CumFraction(c) /\ CumFraction(c) <= One
            /\ c > 0 => CumFraction(c - 1) <= CumFraction(c)

(* C5 (amended): it is non-decreasing in c and within [0, 1] up to          *)
(* rounding: never below 0 and never above 1 + 2 * M * 2^-Prec, M the       *)
(* number of components of the data.                                        *)
C5_CumulativeWithinRounding ==
    PcaDone =>
        \A c \in 0..Len(reducer.explained_variance_ratio_) :
            /\ 0 <= CumFraction(c)
            /\ (2 ^ Prec) * CumFraction(c) <= (2 ^ Prec + 2 * NAxes) * One
            /\ c > 0 => CumFraction(c - 1) <= CumFraction(c)

\* a fit retaining all components whose fractions sum to more than 1
C5_Witness ==
    /\ PcaDone
    /\ Len(reducer.explained_variance_ratio_) = NAxes
    /\ CumFraction(NAxes) > One
    /\ CumFraction(1) < CumFraction(2)

(* ----------------------- vocabulary of C6 and C7 ----------------------- *)
Classified == pc = "classified"
MaxOf(q) == CHOOSE m \in SeqRange(q) : \A v \in SeqRange(q) : v <= m

(* C6 (as stated): every posterior vector returned by predict_proba has K   *)
(* entries, each in [0, 1], that sum to 1.                                  *)
C6_PosteriorsSumToOne ==
    Classified =>
        \A i \in 1..Len(POST) :
            /\ Len(POST[i]) = K
            /\ \A k \in 1..K : 0 <= POST[i][k] /\ POST[i][k] <= One
            /\ Sum(POST[i]) = One

(* C6 (amended): every posterior vector has K entries, each in [0, 1],      *)
(* that sum to 1 up to rounding: the sum is within K * 2^-Prec of 1.        *)
C6_PosteriorsSumToOneWithinRounding ==
    Classified =>
        \A i \in 1..Len(POST) :
            /\ Len(POST[i]) = K
            /\ \A k \in 1..K : 0 <= POST[i][k] /\ POST[i][k] <= One
            /\ (2 ^ Prec) * Abs(Sum(POST[i]) - One) <= K * One

\* three posteriors that do not sum to 1 exactly
C6_Witness ==
    /\ Classified
    /\ K = 3
    /\ Sum(POST[1]) # One
    /\ POST[1][1] < POST[1][2]

(* C7 (as stated): predict returns the index in 0..K-1 of a component with  *)
(* the maximal posterior, the lowest such index when several components     *)
(* share the maximum.                                                       *)
C7_LowestIndexOfMaxPosterior ==
    Classified =>
        \A i \in 1..Len(LABELS) :
            /\ LABELS[i] \in 0..(K - 1)
            /\ POST[i][LABELS[i] + 1] = MaxOf(POST[i])
            /\ \A k \in 1..LABELS[i] : POST[i][k] < MaxOf(POST[i])

(* C7 (amended): predict returns the index in 0..K-1 of a component with    *)
(* the maximal posterior: the lowest index among the components whose       *)
(* weighted likelihood is maximal (components whose posteriors are equal    *)
(* only after rounding are told apart by their likelihoods).                *)
C7_LowestIndexOfMaxLikelihood ==
    Classified =>
        \A i \in 1..Len(LABELS) :
            /\ LABELS[i] \in 0..(K - 1)
            /\ POST[i][LABELS[i] + 1] = MaxOf(POST[i])
            /\ wlik[i][LABELS[i] + 1] = MaxOf(wlik[i])
            /\ \A k \in 1..LABELS[i] : wlik[i][k] < MaxOf(wlik[i])

\* two components share the maximal likelihood and the lower index is
\* returned, while a third has a smaller posterior
C7_Witness ==
    /\ Classified
    /\ K = 3
    /\ LABELS[1] = 1
    /\ wlik[1][2] = wlik[1][3]
    /\ POST[1][1] < POST[1][2]

(* ----------------------- vocabulary of C8 and C9 ----------------------- *)
FitReturned == pc = "gmm_done"
FitFailed == pc = "stopped" /\ err # "none"
FitEnded == FitReturned \/ FitFailed
OutcomeConverged == FitReturned /\ gmm.converged_ = Some(TRUE)
OutcomeCapped == FitReturned /\ gmm.converged_ = Some(FALSE)
OutcomeFailed == FitFailed
\* the loop goes on after a pass only if that pass neither converged nor
\* was the last one allowed
StopsAsSoonAs ==
    (pc = "gmm_iter" /\ pc' = "gmm_iter") =>
        /\ ~BelowTol(change', tol)
        /\ n_iter' < max_iter
\* the loop is left for the end of fit only once one of the two holds
StopsOnlyWhen ==
    (pc = "gmm_iter" /\ pc' = "gmm_end") =>
        BelowTol(change', tol) \/ n_iter' = max_iter
ExactlyOneOutcome ==
    /\ OutcomeConverged \/ OutcomeCapped \/ OutcomeFailed
    /\ ~(OutcomeConverged /\ OutcomeCapped)
    /\ ~(OutcomeConverged /\ OutcomeFailed)
    /\ ~(OutcomeCapped /\ OutcomeFailed)

(* C8: fit always terminates; its loop stops as soon as the change of the   *)
(* lower bound is below tol or max_iter iterations are done, never runs     *)
(* more than max_iter iterations, and ends in exactly one of the outcomes   *)
(* converged, capped, failed.                                               *)
C8_FitTerminates ==
    /\ <>FitEnded
    /\ [](n_iter <= max_iter)
    /\ [][StopsAsSoonAs /\ StopsOnlyWhen]_vars
    /\ [](FitEnded => ExactlyOneOutcome)

\* a fit that went through two passes and stopped at the second because the
\* change fell below tol, with passes to spare
C8_Witness ==
    /\ OutcomeConverged
    /\ n_iter = 2
    /\ max_iter = 3
    /\ BelowTol(change, tol)

(* C9: when fit ends its max_iter-th iteration without the change having    *)
(* fallen below tol it does not fail: it returns the parameters of the last *)
(* iteration, and the caller is told by converged_ = False and a warning;   *)
(* the warning is issued in this case and in no other.                      *)
C9_WarningIffCapped ==
    /\ (pc \in {"gmm_end", "gmm_done"} /\ n_iter = max_iter /\ ~BelowTol(change, tol)) =>
            err = "none" /\ gmm.params = Some(n_iter)
    /\ FitReturned =>
        /\ warned <=> (n_iter = max_iter /\ ~BelowTol(change, tol))
        /\ warned <=> (gmm.converged_ = Some(FALSE))
    /\ ~FitReturned => ~warned

\* fit returned after as many iterations as allowed, unconverged and warned
C9_Witness ==
    /\ FitReturned
    /\ max_iter = 2
    /\ n_iter = 2
    /\ warned
    /\ gmm.converged_ = Some(FALSE)
    /\ gmm.params = Some(2)

\* fit returned at the cap and converged there: no warning
C9_WitnessConvergedAtCap ==
    /\ FitReturned /\ n_iter = max_iter /\ BelowTol(change, tol) /\ ~warned

(* --------------------------- vocabulary of C10 ------------------------ *)
BadThreshold == maxvar <= 0 \/ maxvar > 100
BadK == K <= 0
Malformed == BadK \/ BadThreshold
NothingComputed ==
    /\ scaler = NewScaler /\ Xn = <<>>
    /\ reducer = NewPCA
    /\ gmm = NewGMM
    /\ LABELS = <<>> /\ POST = <<>>
Rejected == pc = "stopped" /\ err = "ValueError"

(* C10 (as stated): a malformed configuration (K <= 0, or a variance        *)
(* threshold outside (0, 1]) is rejected before any stage computes          *)
(* anything, so no stage is left partially fitted.                          *)
C10_RejectedBeforeAnyStage == Malformed => NothingComputed

(* C10 (amended): a malformed configuration is rejected by the fit of the   *)
(* stage that reads the malformed value, which leaves that stage and every  *)
(* later one untouched: a bad threshold stops the run at the reducer with   *)
(* reducer and mixture unfitted, a bad K stops it at the mixture with the   *)
(* mixture unfitted; no label or posterior is ever produced, and the stages *)
(* before the rejecting one have been fitted by then (the scaler always,    *)
(* the reducer when the threshold lies strictly between 0 and 1).           *)
C10_RejectedByConsumingStage ==
    /\ BadThreshold =>
        /\ reducer = NewPCA /\ gmm = NewGMM
        /\ pc \in {"scaler_cell", "pca_cell", "stopped"}
    /\ BadK =>
        /\ gmm = NewGMM
        /\ pc \in {"scaler_cell", "pca_cell", "gmm_fit", "stopped"}
    /\ Malformed =>
        /\ LABELS = <<>> /\ POST = <<>>
        /\ pc = "stopped" => Rejected /\ scaler.fitted
        /\ (pc = "stopped" /\ 0 < maxvar /\ maxvar < 100) => reducer.fitted

\* a run with K = 0 and a sound threshold, stopped by the mixture's fit after
\* scaler and reducer were fitted
C10_Witness ==
    /\ K = 0 /\ ~BadThreshold
    /\ Rejected
    /\ scaler.fitted /\ reducer.fitted
    /\ gmm = NewGMM

(* --------------------------- vocabulary of C11 ------------------------ *)
FitFails == err = "none" /\ err' = "ValueError"

FitCalled == pc \in {"scaler_transform", "scaler_inverse", "scaler_done"}
ConstantColumn(j) == \A i \in 1..Len(X) : X[i][j] = X[1][j]

(* C12 (as stated): the scaler's fit fails with DegenerateFeatureError      *)
(* whenever a column of the training matrix has zero variance, so that      *)
(* every fitted scale is > 0.                                               *)
C12_DegenerateColumnFails ==
    FitCalled =>
        /\ (\E j \in 1..NFeatures : ConstantColumn(j)) =>
               err = "DegenerateFeatureError" /\ ~scaler.fitted
        /\ scaler.fitted => \A j \in 1..NFeatures : scaler.scale_[j] > 0

(* C12 (amended): the scaler's fit does not fail on a column of zero        *)
(* variance: it succeeds and gives that column the scale 1, so that every   *)
(* fitted scale is > 0 and transform never divides by zero.                 *)
C12_DegenerateColumnScaledByOne ==
    FitCalled =>
        /\ err = "none" /\ scaler.fitted
        /\ \A j \in 1..NFeatures :
              /\ scaler.scale_[j] > 0
              /\ ConstantColumn(j) => scaler.var_[j] = 0
              /\ scaler.var_[j] = 0 => scaler.scale_[j] = One

\* a scaler fitted on a constant first column and a varying second one, and
\* the training matrix transformed: the constant column becomes zeros
C12_Witness ==
    /\ pc = "scaler_done"
    /\ ConstantColumn(1) /\ ~ConstantColumn(2)
    /\ X[1][1] = 3 * One
    /\ scaler.scale_[1] = One
    /\ Xarg = X
    /\ \A i \in 1..Len(Xn) : Xn[i][1] = 0

(* --------------------------- vocabulary of C13 ------------------------ *)
SecondRunDone == first # Absent /\ pc \in {"dbscan_done", "kmeans_done", "gmm_done"}

C13_WitnessOtherSeed ==
    /\ SecondRunDone
    /\ pc = "gmm_done"
    /\ gmm_init # first[1].seed
    /\ gmm.n_iter_ # first[1].gmm.n_iter_

\* two clusters found twice by KMeans and by DBSCAN
C13_WitnessKMeans ==
    /\ SecondRunDone /\ pc = "kmeans_done"
    /\ kmeans.n_clusters = 2
    /\ \E i \in 1..Len(labels) : labels[i] = 1
C13_WitnessDbscan ==
    /\ SecondRunDone /\ pc = "dbscan_done"
    /\ n_clusters_ = 2

(* C14: once the scaler, the reducer and the mixture are fitted, calls of   *)
(* transform, inverse_transform, predict and predict_proba, in any number   *)
(* and order, leave every fitted parameter as it was.                       *)
C14_FittedParametersFrozen ==
    [][scaler' = scaler /\ reducer' = reducer /\ gmm' = gmm]_vars

\* the scaler has transformed a matrix other than the one it was fitted on,
\* the reducer has reduced it and both have mapped it back, and the mixture
\* has classified, the labels and the posteriors coming from different calls
C14_Witness ==
    /\ pc = "use"
    /\ scaler = ScalerFit(X) /\ reducer.fitted /\ gmm = FittedGMM
    /\ Xarg # X
    /\ Xn = ScalerTransform(scaler, Xarg)
    /\ Xr = ReducerTransform(reducer, Xn)
    /\ Xn_reconstructed = ReducerInverseTransform(reducer, Xr)
    /\ X_reconstructed = ScalerInverseTransform(scaler, Xn_reconstructed)
    /\ LABELS = Predict(wlik)
    /\ POST # PredictProba(wlik)

(* --------------------------- vocabulary of C15 ------------------------ *)
\* N and M: the rows and columns of the sample matrix of the run
NSamples == Len(X)
MFeatures == Len(X[1])
\* C: the components the reducer keeps
CKept == Len(reducer.components_)
\* a matrix not yet computed, or one of n rows and m columns
Shaped(Ym, n, m) == Ym = <<>> \/ (Len(Ym) = n /\ \A i \in 1..n : Len(Ym[i]) = m)

ScalerFitDone == scaler.fitted /\ Xn = ScalerTransform(scaler, X)
ReducerFitDone == reducer.fitted /\ Xr = ReducerTransform(reducer, Xn)
MixtureFitDone == gmm.n_iter_ # Absent /\ gmm.lower_bound_ # Absent
MixtureFitStarted == gmm.params # Absent \/ pc \in {"gmm_iter", "gmm_end"}

(* C16: the run goes through its stages in one order, each on the whole     *)
(* output of the one before: the reducer is fitted only with the scaler     *)
(* fitted and on the standardized matrix, the mixture's fit starts only     *)
(* with the reducer fitted and the reduced matrix computed, and no label or *)
(* posterior exists before all three fits have completed.                   *)
C16_StagesInOrder ==
    /\ reducer.fitted => ScalerFitDone /\ reducer.mean_ = PcaMean(Xn)
    /\ MixtureFitStarted => ScalerFitDone /\ ReducerFitDone
    /\ (LABELS # <<>> \/ POST # <<>>) =>
           ScalerFitDone /\ ReducerFitDone /\ MixtureFitDone
    /\ POST # <<>> => LABELS # <<>>

\* labels and posteriors assigned at the end of a run whose mixture fit
\* took more than one iteration
C16_Witness ==
    /\ pc = "classified"
    /\ LABELS # <<>> /\ POST # <<>>
    /\ ScalerFitDone /\ ReducerFitDone
    /\ gmm.n_iter_ = Some(2)

C17_WitnessTogether ==
    /\ pc = "parts"
    /\ \A w \in 1..NWorkers : par.state[w] = "running"

(* --------------------------- vocabulary of C18 ------------------------ *)
Interrupted == err = "KeyboardInterrupt"
\* the mixture object as n completed iterations leave it inside fit
MidFit(n) ==
    [params |-> Some(n), converged_ |-> Some(FALSE), n_iter_ |-> Absent,
     lower_bound_ |-> Absent]

(* C18 (as stated): after a fit is interrupted between two iterations the   *)
(* mixture parameters are those that existed before the fit started, or     *)
(* none.                                                                    *)
C18_InterruptRestoresParameters ==
    Interrupted => gmm = FittedGMM \/ gmm = NewGMM

(* C18 (amended): after a fit is interrupted between two iterations the     *)
(* scaler, the reducer and the labels and posteriors computed before are    *)
(* untouched, and the mixture object is the new one, holding the parameters *)
(* of the last iteration completed (the initial ones when none was), marked *)
(* not converged and without n_iter_ and lower_bound_; the mixture fitted   *)
(* before is not put back.                                                  *)
C18_InterruptKeepsLastIteration ==
    Interrupted =>
        /\ gmm = MidFit(n_iter)
        /\ scaler = ScalerFit(X)
        /\ reducer = PcaFitOn(Xn, spectrum, NComponentsArg(maxvar))
        /\ LABELS = Predict(wlik) /\ POST = PredictProba(wlik)

\* a fit interrupted after its second iteration
C18_Witness ==
    /\ Interrupted
    /\ pc = "stopped"
    /\ n_iter = 2
    /\ gmm.params = Some(2)

(* --------------------------- vocabulary of C19 ------------------------ *)
\* the wrapped functions have been called and compute has not started
CalledNotComputed ==
    /\ dask.wrapped
    /\ dask.cell \in {"lazy", "show", "local"}
    /\ dask.task = NoTask
\* the three lazy statements have run
LazyCellDone == dask.wrapped /\ dask.cell \in {"show", "local"} /\ dask.task = NoTask

(* C19: once inc, dec and add are wrapped with dask.delayed, the calls      *)
(* x = inc(1), y = dec(2), z = add(x, y) run no body and take no time; z is *)
(* a Delayed object and not the number 3, and it is what print shows; no    *)
(* body runs before compute is called.                                      *)
C19_DelayedCallsRunNothing ==
    /\ CalledNotComputed =>
           /\ \A k \in Keys : dask.calls[k] = 1
           /\ dask.wall = 0
           /\ Running = {}
    /\ LazyCellDone =>
           /\ dask.x = DelayedV("inc") /\ dask.y = DelayedV("dec")
           /\ dask.z = DelayedV("add") /\ dask.z # IntV(3)
           /\ dask.out = dask.z
           /\ dask.graph["add"] = <<DelayedV("inc"), DelayedV("dec")>>

\* the lazy cell has run after the eager one, which ran each body once and
\* printed 3
C19_Witness ==
    /\ dask.cell = "show"
    /\ dask.z.kind = "delayed"
    /\ \A k \in Keys : dask.calls[k] = 1

(* --------------------------- vocabulary of C20 ------------------------ *)
Computing == dask.cell \in {"local", "distributed"} /\ dask.task # NoTask
\* compute has returned: once after the local run, twice after the
\* distributed one
Returned == dask.cell \in {"client", "distributed", "end"} /\ dask.task = NoTask
ReturnedTimes == IF dask.cell = "end" THEN 2 ELSE 1

(* C20: z.compute() returns 3, with the local scheduler and with the        *)
(* distributed client, whatever the schedule; add starts only when inc and  *)
(* dec have both finished, inc and dec wait for nothing, and each task's    *)
(* body runs once per compute.                                              *)
C20_ComputeGivesThree ==
    /\ Returned =>
           /\ dask.out = IntV(3)
           /\ \A k \in Keys : dask.runs[k] = 1
           /\ \A k \in Keys : dask.calls[k] = 1 + ReturnedTimes
    /\ Computing =>
           /\ dask.task["add"] \in {"running", "done"} =>
                  dask.task["inc"] = "done" /\ dask.task["dec"] = "done"
           /\ Deps("inc") = {} /\ Deps("dec") = {} /\ Deps("add") = {"inc", "dec"}
           /\ \A k \in Keys : dask.runs[k] = IF dask.task[k] = "pending" THEN 0 ELSE 1

\* the distributed compute has returned 3 after a run of four seconds, inc
\* and dec having slept at the same time
C20_Witness ==
    /\ dask.cell = "end" /\ dask.client
    /\ dask.out = IntV(3)
    /\ dask.wall = 4
\* inc and dec in their bodies at the same time; inc done before dec
\* starts; dec done before inc starts
C20_WitnessTogether ==
    Computing /\ dask.task["inc"] = "running" /\ dask.task["dec"] = "running"
C20_WitnessIncFirst ==
    Computing /\ dask.task["inc"] = "done" /\ dask.task["dec"] = "pending"
C20_WitnessDecFirst ==
    Computing /\ dask.task["dec"] = "done" /\ dask.task["inc"] = "pending"

(* C20, termination: every compute that starts returns, unless the client   *)
(* cannot connect.                                                          *)
C20_ComputeReturns == Computing ~> (Returned \/ pc = "stopped")

(* --------------------------- vocabulary of C21 ------------------------ *)
EagerCell == dask.cell = "eager" /\ ~dask.wrapped
EagerCellDone == dask.cell = "wrap" /\ ~dask.wrapped
Entered(k) == dask.calls[k] >= 1

(* C21: with the plain functions the three calls run one after the other in *)
(* program order: the body of dec is entered only when inc has returned and *)
(* x is bound, the body of add only when dec has returned and y is bound,   *)
(* never two bodies at once; when the cell ends 2 + 3 + 1 = 6 seconds have  *)
(* passed and z is 3.                                                       *)
C21_EagerCallsInSequence ==
    /\ EagerCell =>
           /\ Cardinality(Running) <= 1
           /\ Entered("dec") => dask.x = IntV(2) /\ dask.task["inc"] = "idle"
           /\ Entered("add") => dask.y = IntV(1) /\ dask.task["dec"] = "idle"
           /\ dask.wall <= Sleep("inc") + Sleep("dec") + Sleep("add")
    /\ EagerCellDone =>
           /\ dask.wall = Sleep("inc") + Sleep("dec") + Sleep("add")
           /\ dask.wall = 6
           /\ dask.z = IntV(3) /\ dask.out = IntV(3)
           /\ \A k \in Keys : dask.calls[k] = 1

\* the eager cell has ended after six seconds
C21_Witness ==
    /\ EagerCellDone
    /\ dask.wall = 6
    /\ dask.out = IntV(3)

(* --------------------------- vocabulary of C22 ------------------------ *)
DistinctLabels == {labels[i] : i \in 1..Len(labels)}
NoiseOccurs == \E i \in 1..Len(labels) : labels[i] = -1

(* C22: for every label vector DBSCAN returns, n_clusters_ is the number of *)
(* distinct labels other than the noise label -1: the number of distinct    *)
(* labels minus one when -1 occurs, the number of distinct labels           *)
(* otherwise, and 0 when every sample is noise.                             *)
C22_ClustersCountedWithoutNoise ==
    pc = "dbscan_done" =>
        /\ n_clusters_ = Cardinality(DistinctLabels \ {-1})
        /\ NoiseOccurs => n_clusters_ = Cardinality(DistinctLabels) - 1
        /\ ~NoiseOccurs => n_clusters_ = Cardinality(DistinctLabels)
        /\ (\A i \in 1..Len(labels) : labels[i] = -1) => n_clusters_ = 0
        /\ DistinctLabels \ {-1} = 0..(n_clusters_ - 1)

\* one cluster counted among labels where noise occurs
C22_Witness ==
    /\ pc = "dbscan_done"
    /\ NoiseOccurs
    /\ Cardinality(DistinctLabels) = 2
    /\ n_clusters_ = 1
\* every sample noise: no cluster; no noise: two clusters
C22_WitnessAllNoise ==
    /\ pc = "dbscan_done"
    /\ DistinctLabels = {-1}
    /\ n_clusters_ = 0
C22_WitnessNoNoise ==
    /\ pc = "dbscan_done"
    /\ ~NoiseOccurs
    /\ n_clusters_ = 2

(* --------------------------- vocabulary of C23 ------------------------ *)
Selected == pc = "selected"
Distinct(q) == \A i, j \in 1..Len(q) : i # j => q[i] # q[j]

(* C23: the index array ip of the profiles plotted in the training-set      *)
(* figure holds exactly the announced number of distinct profile indices    *)
(* (100 in the notebook), each a valid index in 0..Np-1.                    *)
C23_ExactlyAnnouncedNumber ==
    Selected =>
        /\ Len(sel.ip) = NSelected
        /\ Distinct(sel.ip)
        /\ \A i \in 1..Len(sel.ip) : sel.ip[i] \in 0..(sel.Np - 1)

(* C23, what the cell does give: at least one and at most n distinct        *)
(* indices (n the number of draws, 150 in the notebook), in ascending       *)
(* order, each among the first Np-1 profiles 0..Np-2: the last profile is   *)
(* never drawn.                                                             *)
C23_SelectionWithinDraws ==
    Selected =>
        /\ Len(sel.ip) >= 1 /\ Len(sel.ip) <= NDraws /\ Len(sel.ip) <= sel.Np - 1
        /\ \A i \in 1..(Len(sel.ip) - 1) : sel.ip[i] < sel.ip[i + 1]
        /\ \A i \in 1..Len(sel.ip) : sel.ip[i] \in 0..(sel.Np - 2)
        /\ {sel.ip[i] : i \in 1..Len(sel.ip)} = {sel.draws[i] : i \in 1..NDraws}

\* every draw gave another profile: more profiles than announced; every
\* draw gave the same profile: one profile only
C23_Witness ==
    /\ Selected
    /\ Len(sel.ip) = NDraws
    /\ Len(sel.ip) > NSelected
C23_WitnessOneProfile ==
    /\ Selected
    /\ sel.Np = MaxNp
    /\ Len(sel.ip) = 1

(* --------------------------- vocabulary of C24 ------------------------ *)
AfterEg2 == pc \notin {"eg1", "eg2"}
ResBuilt == pc \notin {"eg1", "eg2", "res"}
Subsampled == pc \notin {"eg1", "eg2", "res", "subsample"}
TutoScaled == pc \in {"dbscan_t2", "kmeans_t2", "t2_done"}
\* the two temperature levels of the profiles kept, one row per profile
TwoTemperatures ==
    [k \in 1..Len(tuto.ii) |->
        <<tuto.ds[<<"TEMP", 0>>][tuto.ii[k] + 1], tuto.ds[<<"TEMP", -1000>>][tuto.ii[k] + 1]>>]

(* C24: with the cells run in their written order the features of Eg 2      *)
(* replace those of Eg 1 before RES is built: RES and its attributes, the   *)
(* scaler, DBSCAN and KMeans work on TEMP at depth 0 and TEMP at depth      *)
(* -1000, and RES['PSALnorm'] is the standardized second temperature        *)
(* feature, no salinity.                                                    *)
C24_SecondFeaturesUsed ==
    /\ AfterEg2 =>
           /\ tuto.feat_0 = [name |-> "TEMP", depth |-> 0, values |-> tuto.ds[<<"TEMP", 0>>]]
           /\ tuto.feat_1 =
                  [name |-> "TEMP", depth |-> -1000, values |-> tuto.ds[<<"TEMP", -1000>>]]
    /\ ResBuilt =>
           /\ tuto.RES.feature_0 = <<"TEMP", 0>>
           /\ tuto.RES.feature_1 = <<"TEMP", -1000>>
    /\ Subsampled => ValuesT(tuto.RES) = TwoTemperatures
    /\ TutoScaled =>
           /\ X = TwoTemperatures
           /\ scaler = ScalerFit(TwoTemperatures)
           /\ Xn = ScalerTransform(scaler, TwoTemperatures)
           /\ tuto.RES.TEMPnorm = Col(Xn, 1)
           /\ tuto.RES.PSALnorm = Col(Xn, 2)
           /\ tuto.RES.feature_1[1] # "PSAL"
    /\ pc \in {"kmeans_t2", "t2_done"} =>
           /\ Xdb = Xn
           /\ db = DbscanFit(ScalerTransform(scaler, TwoTemperatures), eps, min_samples)
           /\ tuto.RES.DBSCAN = db.labels_
    /\ pc = "t2_done" =>
           /\ kmeans.fitted
           /\ kmeans = KMeansFit(ScalerTransform(scaler, TwoTemperatures), kmeans.n_clusters,
                                 KMeansSeed)
           /\ tuto.RES.KMEANS = KMeansPredict(kmeans, Xn)

\* the whole notebook has run on a data set whose salinity at -250 differs
\* from its temperature at -1000 and whose temperature at -250 differs from
\* that at the surface
C24_Witness ==
    /\ pc = "t2_done"
    /\ tuto.ds[<<"PSAL", -250>>] # tuto.ds[<<"TEMP", -1000>>]
    /\ tuto.ds[<<"TEMP", -250>>] # tuto.ds[<<"TEMP", 0>>]
    /\ tuto.RES.PSALnorm # <<>>
    /\ tuto.RES.KMEANS # <<>>

(* C3 (as stated): inverse_transform(transform(Y)) equals Y, entry by     *)
(* entry, for every matrix Y with the fitted column count.                 *)
C3_RoundTripExact == pc = "scaler_done" => Xinv = Xarg

(* C3 (amended): inverse_transform(transform(Y)) equals Y up to rounding:  *)
(* every entry differs from the entry of Y by at most 8 * 2^-Prec times    *)
(* the larger of |entry| and |fitted mean of its column|.                  *)
C3_RoundTripWithinRounding ==
    pc = "scaler_done" =>
        \A i \in 1..Len(Xarg) : \A j \in 1..NFeatures :
            (2 ^ Prec) * Abs(Xinv[i][j] - Xarg[i][j])
                <= 8 * Max2(Abs(Xarg[i][j]), Abs(scaler.mean_[j]))

\* a round trip through a fitted scale other than 1.0 that does not give the
\* matrix back exactly, and one that does
C3_Witness ==
    /\ pc = "scaler_done"
    /\ scaler.fitted
    /\ \A j \in 1..NFeatures : scaler.scale_[j] > 0 /\ scaler.scale_[j] # One
    /\ Xinv[1][1] # Xarg[1][1]
    /\ Xinv[1][2] = Xarg[1][2]

============================================================================
